---- MODULE Spec2Model ----
(***************************************************************************)
(* Identity-document verification pipeline (VerificationService) with its  *)
(* collaborators: the file download services, the Textract text extractor  *)
(* and the Rekognition face comparator.                                    *)
(*                                                                         *)
(* Text is a sequence of atoms.  An atom stands for a run of characters    *)
(* that no matcher of the program ever cuts: a word, a digit group, a      *)
(* separator, a single space.  Substring search, case conversion,          *)
(* whitespace removal, split and join are computed on these sequences the  *)
(* way the JavaScript string methods compute them on characters.           *)
(***************************************************************************)
EXTENDS Integers, Sequences, FiniteSets, TLC

(***************************************************************************)
(* Bounds of the model.                                                    *)
(***************************************************************************)
\* longest identityUrls list of a request
MaxUrls == 2
\* external calls (fetch, OCR, face detection/comparison, unlink) that fail in one run
MaxFaults == 1
\* largest value Date.now() returns
MaxNow == 1

(***************************************************************************)
(* Strings.                                                                *)
(***************************************************************************)
SP == " "
UIA == "unique identification authority"
ROI == "republic of india"

\* String.prototype.toLowerCase on one atom
Lower(t) ==
    CASE t = "UNIQUE IDENTIFICATION AUTHORITY" -> UIA
      [] t = "REPUBLIC OF INDIA" -> ROI
      [] t = "Ravi" -> "ravi"
      [] t = "Asha" -> "asha"
      [] t = "P1234567" -> "p1234567"
      [] t = "NaN" -> "nan"
      [] OTHER -> t

\* String.prototype.toUpperCase on one atom
Upper(t) ==
    CASE t = UIA -> "UNIQUE IDENTIFICATION AUTHORITY"
      [] t = ROI -> "REPUBLIC OF INDIA"
      [] t \in {"ravi", "Ravi"} -> "RAVI"
      [] t \in {"asha", "Asha"} -> "ASHA"
      [] t = "p1234567" -> "P1234567"
      [] t = "NaN" -> "NAN"
      [] OTHER -> t

\* number of characters of an atom made of [A-Z0-9] only, 0 for any other atom
AlnumWidth(t) ==
    CASE t \in {"1234", "5678", "9012", "1995"} -> 4
      [] t = "12345" -> 5
      [] t \in {"05", "06", "15"} -> 2
      [] t = "P1234567" -> 8
      [] t \in {"RAVI", "ASHA"} -> 4
      [] t = "NAN" -> 3
      [] OTHER -> 0

\* the atom is a run of decimal digits
IsDigits(t) == t \in {"1234", "5678", "9012", "1995", "12345", "05", "06", "15"}

toLowerCase(s) == [k \in 1..Len(s) |-> Lower(s[k])]

toUpperCase(s) == [k \in 1..Len(s) |-> Upper(s[k])]

\* s.replace(/\s+/g, '')
stripWhitespace(s) == SelectSeq(s, LAMBDA t : t # SP)

\* s.replace(/\//g, by)
replaceSlash(s, by) ==
    LET R[k \in 0..Len(s)] ==
            IF k = 0 THEN <<>>
            ELSE R[k - 1] \o (IF s[k] = "/" THEN by ELSE <<s[k]>>)
    IN  R[Len(s)]

\* text.includes(pat)
includes(text, pat) ==
    \E k \in 0..(Len(text) - Len(pat)) : SubSeq(text, k + 1, k + Len(pat)) = pat

\* parts.join(sep)
RECURSIVE join(_, _)
join(parts, sep) ==
    IF Len(parts) = 0 THEN <<>>
    ELSE IF Len(parts) = 1 THEN parts[1]
    ELSE parts[1] \o sep \o join(Tail(parts), sep)

\* s.split('/')
RECURSIVE splitSlash(_)
splitSlash(s) ==
    IF \A k \in 1..Len(s) : s[k] # "/" THEN <<s>>
    ELSE LET k == CHOOSE j \in 1..Len(s) : s[j] = "/" /\ \A h \in 1..(j - 1) : s[h] # "/"
         IN  <<SubSeq(s, 1, k - 1)>> \o splitSlash(SubSeq(s, k + 1, Len(s)))

\* array.reverse()
reverse(a) == [k \in 1..Len(a) |-> a[Len(a) + 1 - k]]

(***************************************************************************)
(* VerificationService: the policy functions.                              *)
(* An optional flag is "true", "false" or "undefined"; a flag the code     *)
(* always computes is a BOOLEAN.                                           *)
(***************************************************************************)
Flag(b) == IF b THEN "true" ELSE "false"

\* the earlier _validateDocumentType, which knows the spelling 'aadhar' only
_validateDocumentType_aadharOnly(extractedText, documentType) ==
    CASE documentType = "aadhar" -> includes(extractedText, <<UIA>>)
      [] documentType = "passport" -> includes(extractedText, <<ROI>>)
      [] documentType = "other" -> TRUE
      [] OTHER -> FALSE

_validateDocumentType(extractedText, documentType) ==
    CASE documentType \in {"aadhaar", "aadhar"} -> includes(extractedText, <<UIA>>)
      [] documentType = "passport" -> includes(extractedText, <<ROI>>)
      [] documentType = "other" -> TRUE
      [] OTHER -> FALSE

_matchName(extractedText, name) == includes(extractedText, toLowerCase(name))

\* A dob is [kind, v]: kind "undefined" (absent), "Date" (a Date object whose local
\* calendar fields are v = <<DD, "/", MM, "/", YYYY>>), "string" (the text v) or
\* "number" (any truthy value that is neither a Date nor a string).
DobMissing(dob) == dob.kind = "undefined" \/ (dob.kind = "string" /\ dob.v = <<>>)

_formatDOBThrows(dob) == dob.kind \notin {"Date", "string"}

MonthAtoms == {"05", "06"}
DayAtoms == {"05", "06", "15"}
InvalidDate == <<"NaN", "/", "NaN", "/", "NaN">>

\* new Date(text) for a text shaped NN/NN/NNNN: the engine's fallback parser reads it
\* as month/day/year; a month above 12 gives an Invalid Date, whose fields are NaN.
\* (Every day atom of the model is at most 28, so no day rolls over into the next month.)
\* The result is the local calendar date as <<day, month, year>>, or <<>> when invalid.
ParseDate(v) ==
    LET parts == splitSlash(v)
    IN  IF /\ Len(parts) = 3
           /\ \A k \in 1..3 : Len(parts[k]) = 1
           /\ parts[1][1] \in MonthAtoms
           /\ parts[2][1] \in DayAtoms
        THEN <<parts[2][1], parts[1][1], parts[3][1]>>
        ELSE <<>>

_formatDOB(dob) ==
    LET date == IF dob.kind = "Date" THEN <<dob.v[1], dob.v[3], dob.v[5]>> ELSE ParseDate(dob.v)
    IN  IF date = <<>> THEN InvalidDate
        ELSE <<date[1], "/", date[2], "/", date[3]>>

dateFormats(dobString) ==
    << dobString,
       replaceSlash(dobString, <<"-">>),
       join(reverse(splitSlash(dobString)), <<"-">>),
       join(reverse(splitSlash(dobString)), <<"/">>),
       replaceSlash(dobString, <<>>),
       join(reverse(splitSlash(dobString)), <<>>) >>

_matchDOB(extractedText, dob) ==
    LET formats == dateFormats(_formatDOB(dob))
    IN  \E k \in 1..Len(formats) : includes(extractedText, toLowerCase(formats[k]))

\* /^\d{12}$/ on the number without whitespace
_validateAadhaarFormat(aadhaarNumber) ==
    LET cleaned == stripWhitespace(aadhaarNumber)
        W[k \in 0..Len(cleaned)] == IF k = 0 THEN 0 ELSE W[k - 1] + AlnumWidth(cleaned[k])
    IN  /\ \A k \in 1..Len(cleaned) : IsDigits(cleaned[k])
        /\ W[Len(cleaned)] = 12

\* /^[A-Z0-9]{8,9}$/ on the upper-cased number without whitespace
_validatePassportFormat(passportNumber) ==
    LET cleaned == toUpperCase(stripWhitespace(passportNumber))
        W[k \in 0..Len(cleaned)] == IF k = 0 THEN 0 ELSE W[k - 1] + AlnumWidth(cleaned[k])
    IN  /\ \A k \in 1..Len(cleaned) : AlnumWidth(cleaned[k]) > 0
        /\ W[Len(cleaned)] \in {8, 9}

_validateIdentityCardNumberFormat(identityCardNumber, idType) ==
    IF idType = "aadhaar" THEN _validateAadhaarFormat(identityCardNumber)
    ELSE IF idType = "passport" THEN _validatePassportFormat(identityCardNumber)
    ELSE TRUE

_matchIdentityCardNumber(extractedText, identityCardNumber) ==
    LET cardNumberLower == stripWhitespace(toLowerCase(identityCardNumber))
        extractedTextNormalized == stripWhitespace(extractedText)
    IN  \/ includes(extractedTextNormalized, cardNumberLower)
        \/ includes(extractedText, toLowerCase(identityCardNumber))

\* the type test that opens the field-matching block of verifyIdentity
NeedsDobAndId(type) == type = "aadhaar" \/ type = "aadhar" \/ type = "passport"

\* a type test that demands DOB and identity card number of every type
StatusChecksDobAndId_everyType(type) == TRUE

\* the type test of _determineVerificationStatus
StatusChecksDobAndId(type) == type = "aadhar" \/ type = "passport"

\* a _buildMessage that lists name and face only
MessageListsDobAndId_never(type) == FALSE

\* the type test of _buildMessage
MessageListsDobAndId(type) == type = "aadhar" \/ type = "passport"

\* Phase 3 of verifyIdentity: the flags, or threw = TRUE when _formatDOB throws.
\* An absent or empty identityCardNumber is <<>>.
FieldMatching(extractedText, r) ==
    LET isNameMatched == _matchName(extractedText, r.name)
        formatValid == _validateIdentityCardNumberFormat(r.identityCardNumber, r.type)
        idFlags ==
            IF r.identityCardNumber = <<>>
            THEN [valid |-> "false", matched |-> "false"]
            ELSE IF ~formatValid
            THEN [valid |-> "false", matched |-> "false"]
            ELSE [valid |-> "true",
                  matched |-> Flag(_matchIdentityCardNumber(extractedText, r.identityCardNumber))]
    IN  IF ~NeedsDobAndId(r.type)
        THEN [threw |-> FALSE, isNameMatched |-> isNameMatched, isDOBMatched |-> "undefined",
              isIdentityCardNumberMatched |-> "undefined",
              isIdentityCardNumberFormatValid |-> "undefined"]
        ELSE IF ~DobMissing(r.dob) /\ _formatDOBThrows(r.dob)
        THEN [threw |-> TRUE, isNameMatched |-> isNameMatched, isDOBMatched |-> "undefined",
              isIdentityCardNumberMatched |-> idFlags.matched,
              isIdentityCardNumberFormatValid |-> idFlags.valid]
        ELSE [threw |-> FALSE, isNameMatched |-> isNameMatched,
              isDOBMatched |-> IF DobMissing(r.dob) THEN "false"
                               ELSE Flag(_matchDOB(extractedText, r.dob)),
              isIdentityCardNumberMatched |-> idFlags.matched,
              isIdentityCardNumberFormatValid |-> idFlags.valid]

\* a verdict that asks of the other types the document type only
_determineVerificationStatus_otherNeedsTypeOnly(isDocumentTypeMatched, isNameMatched, isDOBMatched, isIdentityCardNumberMatched, isFaceMatched, type) ==
    IF ~StatusChecksDobAndId(type) THEN isDocumentTypeMatched
    ELSE /\ isNameMatched /\ isFaceMatched
         /\ isDOBMatched = "true" /\ isIdentityCardNumberMatched = "true"

_determineVerificationStatus(isDocumentTypeMatched, isNameMatched, isDOBMatched, isIdentityCardNumberMatched, isFaceMatched, type) ==
    IF ~isDocumentTypeMatched \/ ~isNameMatched \/ ~isFaceMatched THEN FALSE
    ELSE IF StatusChecksDobAndId(type)
    THEN isDOBMatched = "true" /\ isIdentityCardNumberMatched = "true"
    ELSE TRUE

\* issues.join(', ')
RECURSIVE joinIssues(_)
joinIssues(issues) ==
    IF Len(issues) = 0 THEN ""
    ELSE IF Len(issues) = 1 THEN issues[1]
    ELSE issues[1] \o ", " \o joinIssues(Tail(issues))

_buildMessage(isNameMatched, isDOBMatched, isIdentityCardNumberMatched, isFaceMatched, type) ==
    LET issues ==
            (IF ~isNameMatched THEN <<"name">> ELSE <<>>)
            \o (IF MessageListsDobAndId(type) /\ isDOBMatched = "false" THEN <<"DOB">> ELSE <<>>)
            \o (IF MessageListsDobAndId(type) /\ isIdentityCardNumberMatched = "false"
                THEN <<"identity card number">> ELSE <<>>)
            \o (IF ~isFaceMatched THEN <<"face">> ELSE <<>>)
    IN  IF Len(issues) = 0 THEN "Verification complete"
        ELSE joinIssues(issues) \o " did not match, but verification continued"

\* the object the earlier verifyIdentity returns when the document-type gate fails
GateFailureResult_aadharOnly(type) ==
    [isDocumentTypeMatched |-> FALSE,
     message |-> IF type = "aadhar" THEN "aadhar not found" ELSE "passport not found"]

\* the object verifyIdentity returns when the document-type gate fails
GateFailureResult(type) ==
    [isDocumentTypeMatched |-> FALSE,
     message |-> IF type = "aadhaar" \/ type = "aadhar" THEN "aadhaar not found"
                 ELSE "passport not found"]

(***************************************************************************)
(* The remote world: the documents behind the URLs, and what the OCR and   *)
(* face services answer for them when they answer at all.                  *)
(***************************************************************************)
IdentityDocs == {"aadhaarCard", "passportPage", "letter"}
PhotoDocs == {"selfieRavi", "selfieAsha"}

\* the LINE blocks of the document, joined by ' ' (before lower-casing)
DocText(d) ==
    CASE d = "aadhaarCard" ->
            <<"UNIQUE IDENTIFICATION AUTHORITY", SP, "Ravi", SP, "06", "/", "06", "/", "1995",
              SP, "1234", SP, "5678", SP, "9012">>
      [] d = "passportPage" ->
            <<"REPUBLIC OF INDIA", SP, "RAVI", SP, "1995", "-", "06", "-", "06", SP, "P1234567">>
      [] d = "letter" -> <<"Asha">>
      [] OTHER -> <<>>

\* whose face the image shows
DocFace(d) ==
    CASE d \in {"aadhaarCard", "passportPage", "selfieRavi"} -> "ravi"
      [] d = "selfieAsha" -> "asha"
      [] OTHER -> "none"

\* SimilarityThreshold of the CompareFaces request
SimilarityThreshold == 80

\* the similarity of the most similar face of the target to the source's face
Similarity(source, target) ==
    IF DocFace(source) # DocFace(target) THEN 40
    ELSE IF target = "aadhaarCard" THEN 97 ELSE 91

IdentityUrlSet ==
    { [kind |-> "http", doc |-> "aadhaarCard"],
      [kind |-> "s3", doc |-> "passportPage"],
      [kind |-> "s3", doc |-> "letter"] }

PhotoUrlSet ==
    { [kind |-> "http", doc |-> "selfieRavi"],
      [kind |-> "s3", doc |-> "selfieAsha"] }

\* url.includes('s3.amazonaws.com') || url.includes('.s3.')
_isS3Url(url) == url.kind = "s3"

\* the lists of 1..n different elements of S
SeqsUpTo(S, n) ==
    { q \in UNION { [1..k -> S] : k \in 1..n } : \A a, b \in 1..Len(q) : a # b => q[a] # q[b] }

Types == {"aadhaar", "aadhar", "passport", "other", "voter"}
Names == { <<"Ravi">>, <<"Asha">> }
Dobs ==
    { [kind |-> "undefined", v |-> <<>>],
      [kind |-> "string", v |-> <<"06", "/", "06", "/", "1995">>],
      [kind |-> "string", v |-> <<"15", "/", "06", "/", "1995">>],
      [kind |-> "number", v |-> <<>>] }
IdentityCardNumbers ==
    { <<>>, <<"1234", SP, "5678", SP, "9012">>, <<"12345">>, <<"P1234567">> }

Requests ==
    [ name : Names, dob : Dobs, identityCardNumber : IdentityCardNumbers,
      photoUrl : PhotoUrlSet, identityUrls : SeqsUpTo(IdentityUrlSet, MaxUrls), type : Types ]

\* the requests of the runs with two invocations
ConcurrentRequests ==
    LET request(type, dobKind, photo, urls) ==
            [name |-> <<"Ravi">>,
             dob |-> [kind |-> dobKind,
                      v |-> IF dobKind = "string" THEN <<"06", "/", "06", "/", "1995">> ELSE <<>>],
             identityCardNumber |-> <<"1234", SP, "5678", SP, "9012">>,
             photoUrl |-> [kind |-> IF photo = "selfieRavi" THEN "http" ELSE "s3", doc |-> photo],
             identityUrls |-> urls, type |-> type]
        card == [kind |-> "http", doc |-> "aadhaarCard"]
        letter == [kind |-> "s3", doc |-> "letter"]
    IN  { request("aadhar", "string", "selfieRavi", <<card>>),
          request("passport", "string", "selfieRavi", <<card>>),
          request("aadhar", "number", "selfieAsha", <<letter, card>>),
          request("other", "undefined", "selfieAsha", <<letter, card>>) }

(***************************************************************************)
(* The local staging area.  A path is [dir, name]; a file is               *)
(* [path, doc, by]: the document whose bytes it holds and the invocation   *)
(* that wrote it.                                                          *)
(***************************************************************************)
\* S3DownloadService.filesDir outside Vercel and Lambda
S3FilesDir == "./files"
\* FileDownloadService.filesDir
HttpFilesDir == "./files"

FilesDir(url) == IF _isS3Url(url) THEN S3FilesDir ELSE HttpFilesDir

\* join(filesDir, 'photo.jpg')
PhotoPath(url) == [dir |-> FilesDir(url), name |-> <<"photo.jpg">>]

\* join(filesDir, `s3_file_${index}_${Date.now()}.jpg`), join(filesDir, `image_${index}_${Date.now()}.jpg`)
IdentityPath(url, index, t) ==
    [dir |-> FilesDir(url), name |-> <<IF _isS3Url(url) THEN "s3_file" ELSE "image", index, t>>]

existsSync(fs, path) == \E f \in fs : f.path = path

\* readFile: the document held by the file
Content(fs, path) == (CHOOSE f \in fs : f.path = path).doc

writeFile(fs, path, doc, by) ==
    {f \in fs : f.path # path} \cup {[path |-> path, doc |-> doc, by |-> by]}

unlink(fs, path) == {f \in fs : f.path # path}

\* urls.filter(pred), keeping the order
RECURSIVE filterUrls(_, _)
filterUrls(urls, s3) ==
    IF urls = <<>> THEN <<>>
    ELSE (IF _isS3Url(Head(urls)) = s3 THEN <<Head(urls)>> ELSE <<>>) \o filterUrls(Tail(urls), s3)

\* _downloadFiles: the downloads it starts, in the order of its result
\* (results.flat(): downloadFromS3Multiple's paths, then downloadImages' paths),
\* each with the local name its service gives it at time t
DownloadJobs(urls, t) ==
    LET s3Urls == filterUrls(urls, TRUE)
        httpUrls == filterUrls(urls, FALSE)
    IN  [k \in 1..Len(s3Urls) |->
            [url |-> s3Urls[k], path |-> IdentityPath(s3Urls[k], k - 1, t), st |-> "pending"]]
        \o
        [k \in 1..Len(httpUrls) |->
            [url |-> httpUrls[k], path |-> IdentityPath(httpUrls[k], k - 1, t), st |-> "pending"]]

\* the paths of the settled, successful downloads (filter(path => path !== null))
RECURSIVE ValidPaths(_)
ValidPaths(jobs) ==
    IF jobs = <<>> THEN <<>>
    ELSE (IF Head(jobs).st = "ok" THEN <<Head(jobs).path>> ELSE <<>>) \o ValidPaths(Tail(jobs))

(***************************************************************************)
(* State.                                                                  *)
(***************************************************************************)
VARIABLES
    active,            \* the invocations of verifyIdentity of this run
    now,               \* the last value Date.now() returned
    faults,            \* external calls that failed so far
    files,             \* the local staging area
    pc,                \* where each invocation stands
    req,               \* requestData
    photoFetch,        \* the photo download: "idle", "pending", "ok", "failed"
    idFetch,           \* the identity downloads, in the order of _downloadFiles' result
    downloadedFiles,   \* let downloadedFiles
    photoFilePath,
    identityFilePaths,
    ocr,               \* extractText's per-file promises: [st, text]
    extractedText,
    isDocumentTypeMatched, \* the flag of phase 2: "undefined" until the gate has decided
    match,             \* the flags of phase 3
    faceIdx,           \* the candidate compareFacesWithIdentity is at
    faceStage,         \* "detect" or "compare"
    faceLog,           \* the face calls that settled: [op, idx, res]
    faceResult,
    del,               \* the deleteFile promises of the running deleteFiles: [path, st]
    exit,              \* how the try block was left: "none", "return", "throw"
    result,            \* the returned object, <<>> while there is none
    written,           \* history: the paths this invocation's downloads wrote
    releaseLog,        \* history: the paths deleteFile was called with
    unlinkFailed,      \* history: the paths whose unlink the file system refused
    response,          \* the HTTP response of the controller: [status, body]
    call               \* a policy function called on its own: [fn, args, out]

vars == <<active, now, faults, files, pc, req, photoFetch, idFetch, downloadedFiles,
          photoFilePath, identityFilePaths, ocr, extractedText, isDocumentTypeMatched, match,
          faceIdx, faceStage, faceLog, faceResult, del, exit, result, written, releaseLog,
          unlinkFailed, response, call>>

NoPath == [dir |-> "", name |-> <<>>]
NoRequest ==
    [name |-> <<>>, dob |-> [kind |-> "undefined", v |-> <<>>], identityCardNumber |-> <<>>,
     photoUrl |-> [kind |-> "", doc |-> ""], identityUrls |-> <<>>, type |-> ""]
NoMatch ==
    [threw |-> FALSE, isNameMatched |-> FALSE, isDOBMatched |-> "undefined",
     isIdentityCardNumberMatched |-> "undefined", isIdentityCardNumberFormatValid |-> "undefined"]
NoFaceResult == [isFaceMatched |-> FALSE, confidence |-> 0]
\* no response has been sent
NoResponse == [status |-> 0, body |-> <<>>]
\* no function has been called on its own
NoCall == [fn |-> "", args |-> <<>>, out |-> "none"]

InitWith(invocations) ==
    /\ active = invocations
    /\ now = 0
    /\ faults = 0
    /\ files = {}
    /\ pc = [i \in invocations |-> "init"]
    /\ req = [i \in invocations |-> NoRequest]
    /\ photoFetch = [i \in invocations |-> "idle"]
    /\ idFetch = [i \in invocations |-> <<>>]
    /\ downloadedFiles = [i \in invocations |-> <<>>]
    /\ photoFilePath = [i \in invocations |-> NoPath]
    /\ identityFilePaths = [i \in invocations |-> <<>>]
    /\ ocr = [i \in invocations |-> <<>>]
    /\ extractedText = [i \in invocations |-> <<>>]
    /\ isDocumentTypeMatched = [i \in invocations |-> "undefined"]
    /\ match = [i \in invocations |-> NoMatch]
    /\ faceIdx = [i \in invocations |-> 0]
    /\ faceStage = [i \in invocations |-> "detect"]
    /\ faceLog = [i \in invocations |-> <<>>]
    /\ faceResult = [i \in invocations |-> NoFaceResult]
    /\ del = [i \in invocations |-> <<>>]
    /\ exit = [i \in invocations |-> "none"]
    /\ result = [i \in invocations |-> <<>>]
    /\ written = [i \in invocations |-> {}]
    /\ releaseLog = [i \in invocations |-> <<>>]
    /\ unlinkFailed = [i \in invocations |-> {}]
    /\ response = [i \in invocations |-> NoResponse]

\* one request at a time
Init == InitWith({1}) /\ call = NoCall

\* an external call may fail while the run's fault budget lasts
MayFail == faults < MaxFaults

\* two requests at once
InitConcurrent == InitWith({1, 2}) /\ call = NoCall

\* the requests of a run
Workload == IF Cardinality(active) = 1 THEN Requests ELSE ConcurrentRequests

\* Date.now() never goes back; the first reading of a run is the origin of time
ClockReadings == IF \A j \in active : pc[j] = "init" THEN {now} ELSE now..MaxNow

\* deleteFiles(filePaths): deleteFile is called for every path at once; each tests
\* existsSync at once and then awaits its unlink
deleteFiles(filePaths, fs) ==
    [k \in 1..Len(filePaths) |->
        [path |-> filePaths[k],
         st |-> IF existsSync(fs, filePaths[k]) THEN "unlinking" ELSE "skipped"]]

AllSettled(promises) == \A k \in 1..Len(promises) : promises[k].st \notin {"pending", "unlinking"}

\* the texts extractText joins: '' for a file whose extraction failed
RECURSIVE Texts(_)
Texts(promises) ==
    IF promises = <<>> THEN <<>> ELSE <<Head(promises).text>> \o Texts(Tail(promises))

\* extractedTexts.join(' ').toLowerCase()
CombinedText(promises) == toLowerCase(join(Texts(promises), <<SP>>))

(***************************************************************************)
(* verifyIdentity, one action per stretch of code between two awaits.      *)
(***************************************************************************)
\* Phase 0 begins for the request r at time t: both downloads of Promise.all are started
StartWith(i, r, t) ==
    /\ pc[i] = "init"
    /\ req' = [req EXCEPT ![i] = r]
    /\ now' = t
    /\ idFetch' = [idFetch EXCEPT ![i] = DownloadJobs(r.identityUrls, t)]
    /\ photoFetch' = [photoFetch EXCEPT ![i] = "pending"]
    /\ pc' = [pc EXCEPT ![i] = "fetch"]
    /\ UNCHANGED <<active, response, call, isDocumentTypeMatched, faults, files,
                   downloadedFiles, photoFilePath, identityFilePaths, ocr, extractedText,
                   match, faceIdx, faceStage, faceLog, faceResult, del, exit, result,
                   written, releaseLog, unlinkFailed>>

\* verifyIdentity is called by a user of the library
Start(i) ==
    /\ pc[i] = "init"
    /\ \E r \in Workload, t \in ClockReadings : StartWith(i, r, t)

\* _downloadFile(photoUrl, 'photo.jpg') writes its file and resolves
PhotoFetched(i) ==
    /\ photoFetch[i] = "pending"
    /\ files' = writeFile(files, PhotoPath(req[i].photoUrl), req[i].photoUrl.doc, i)
    /\ written' = [written EXCEPT ![i] = @ \cup {PhotoPath(req[i].photoUrl)}]
    /\ photoFetch' = [photoFetch EXCEPT ![i] = "ok"]
    /\ UNCHANGED <<active, response, call, isDocumentTypeMatched, now, faults, pc, req, idFetch,
                   downloadedFiles, photoFilePath, identityFilePaths, ocr, extractedText,
                   match, faceIdx, faceStage, faceLog, faceResult, del, exit, result,
                   releaseLog, unlinkFailed>>

\* _downloadFile(photoUrl, 'photo.jpg') rejects
PhotoFetchFailed(i) ==
    /\ photoFetch[i] = "pending"
    /\ MayFail
    /\ faults' = faults + 1
    /\ photoFetch' = [photoFetch EXCEPT ![i] = "failed"]
    /\ UNCHANGED <<active, response, call, isDocumentTypeMatched, now, files, pc, req, idFetch,
                   downloadedFiles, photoFilePath, identityFilePaths, ocr, extractedText,
                   match, faceIdx, faceStage, faceLog, faceResult, del, exit, result,
                   written, releaseLog, unlinkFailed>>

\* one download of downloadFromS3Multiple / downloadImages writes its file and resolves
IdentityFetched(i, k) ==
    /\ k \in 1..Len(idFetch[i])
    /\ idFetch[i][k].st = "pending"
    /\ files' = writeFile(files, idFetch[i][k].path, idFetch[i][k].url.doc, i)
    /\ written' = [written EXCEPT ![i] = @ \cup {idFetch[i][k].path}]
    /\ idFetch' = [idFetch EXCEPT ![i][k].st = "ok"]
    /\ UNCHANGED <<active, response, call, isDocumentTypeMatched, now, faults, pc, req,
                   photoFetch, downloadedFiles, photoFilePath, identityFilePaths, ocr,
                   extractedText, match, faceIdx, faceStage, faceLog, faceResult, del,
                   exit, result, releaseLog, unlinkFailed>>

\* a download without the .catch: its rejection rejects the batch and the pipeline
IdentityFetchFailed_rejects(i, k) ==
    /\ k \in 1..Len(idFetch[i])
    /\ idFetch[i][k].st = "pending"
    /\ pc[i] = "fetch"
    /\ MayFail
    /\ faults' = faults + 1
    /\ idFetch' = [idFetch EXCEPT ![i][k].st = "failed"]
    /\ exit' = [exit EXCEPT ![i] = "throw"]
    /\ pc' = [pc EXCEPT ![i] = "done"]
    /\ UNCHANGED <<active, response, call, isDocumentTypeMatched, now, files, req,
                   photoFetch, downloadedFiles, photoFilePath, identityFilePaths, ocr,
                   extractedText, match, faceIdx, faceStage, faceLog, faceResult, del,
                   result, written, releaseLog, unlinkFailed>>

\* one download fails: its .catch turns the rejection into null
IdentityFetchFailed(i, k) ==
    /\ k \in 1..Len(idFetch[i])
    /\ idFetch[i][k].st = "pending"
    /\ MayFail
    /\ faults' = faults + 1
    /\ idFetch' = [idFetch EXCEPT ![i][k].st = "failed"]
    /\ UNCHANGED <<active, response, call, isDocumentTypeMatched, now, files, pc, req,
                   photoFetch, downloadedFiles, photoFilePath, identityFilePaths, ocr,
                   extractedText, match, faceIdx, faceStage, faceLog, faceResult, del,
                   exit, result, written, releaseLog, unlinkFailed>>

\* Promise.all rejects as soon as the photo download has rejected: catch rethrows,
\* finally finds downloadedFiles empty and deletes nothing
FetchRejected(i) ==
    /\ pc[i] = "fetch"
    /\ photoFetch[i] = "failed"
    /\ exit' = [exit EXCEPT ![i] = "throw"]
    /\ pc' = [pc EXCEPT ![i] = "done"]
    /\ UNCHANGED <<active, response, call, isDocumentTypeMatched, now, faults, files, req,
                   photoFetch, idFetch, downloadedFiles, photoFilePath, identityFilePaths,
                   ocr, extractedText, match, faceIdx, faceStage, faceLog, faceResult, del,
                   result, written, releaseLog, unlinkFailed>>

\* a verifyIdentity that goes on only once every identity file is there: a download that
\* failed is waited for without end
FetchJoined_awaitsEveryFile(i) ==
    /\ pc[i] = "fetch"
    /\ photoFetch[i] = "ok"
    /\ \A k \in 1..Len(idFetch[i]) : idFetch[i][k].st = "ok"
    /\ LET paths == ValidPaths(idFetch[i])
       IN  /\ photoFilePath' = [photoFilePath EXCEPT ![i] = PhotoPath(req[i].photoUrl)]
           /\ identityFilePaths' = [identityFilePaths EXCEPT ![i] = paths]
           /\ downloadedFiles' =
                [downloadedFiles EXCEPT ![i] = <<PhotoPath(req[i].photoUrl)>> \o paths]
           /\ ocr' = [ocr EXCEPT ![i] = [k \in 1..Len(paths) |-> [st |-> "pending", text |-> <<>>]]]
    /\ pc' = [pc EXCEPT ![i] = "extract"]
    /\ UNCHANGED <<active, response, call, isDocumentTypeMatched, now, faults, files, req,
                   photoFetch, idFetch, extractedText, match, faceIdx, faceStage, faceLog,
                   faceResult, del, exit, result, written, releaseLog, unlinkFailed>>

\* a verifyIdentity that awaits the photo only: Phase 1 begins with the identity files
\* fetched so far
FetchJoined_photoOnly(i) ==
    /\ pc[i] = "fetch"
    /\ photoFetch[i] = "ok"
    /\ LET paths == ValidPaths(idFetch[i])
       IN  /\ photoFilePath' = [photoFilePath EXCEPT ![i] = PhotoPath(req[i].photoUrl)]
           /\ identityFilePaths' = [identityFilePaths EXCEPT ![i] = paths]
           /\ downloadedFiles' =
                [downloadedFiles EXCEPT ![i] = <<PhotoPath(req[i].photoUrl)>> \o paths]
           /\ ocr' = [ocr EXCEPT ![i] = [k \in 1..Len(paths) |-> [st |-> "pending", text |-> <<>>]]]
    /\ pc' = [pc EXCEPT ![i] = "extract"]
    /\ UNCHANGED <<active, response, call, isDocumentTypeMatched, now, faults, files, req,
                   photoFetch, idFetch, extractedText, match, faceIdx, faceStage, faceLog,
                   faceResult, del, exit, result, written, releaseLog, unlinkFailed>>

\* Promise.all resolves; Phase 1 begins: extractText starts one extraction per file
FetchJoined(i) ==
    /\ pc[i] = "fetch"
    /\ photoFetch[i] = "ok"
    /\ AllSettled(idFetch[i])
    /\ LET paths == ValidPaths(idFetch[i])
       IN  /\ photoFilePath' = [photoFilePath EXCEPT ![i] = PhotoPath(req[i].photoUrl)]
           /\ identityFilePaths' = [identityFilePaths EXCEPT ![i] = paths]
           /\ downloadedFiles' =
                [downloadedFiles EXCEPT ![i] = <<PhotoPath(req[i].photoUrl)>> \o paths]
           /\ ocr' = [ocr EXCEPT ![i] = [k \in 1..Len(paths) |-> [st |-> "pending", text |-> <<>>]]]
    /\ pc' = [pc EXCEPT ![i] = "extract"]
    /\ UNCHANGED <<active, response, call, isDocumentTypeMatched, now, faults, files, req,
                   photoFetch, idFetch, extractedText, match, faceIdx, faceStage, faceLog,
                   faceResult, del, exit, result, written, releaseLog, unlinkFailed>>

\* extractTextFromFile reads the file and gets its lower-cased text
TextExtracted(i, k) ==
    /\ pc[i] = "extract"
    /\ k \in 1..Len(ocr[i])
    /\ ocr[i][k].st = "pending"
    /\ existsSync(files, identityFilePaths[i][k])
    /\ ocr' = [ocr EXCEPT ![i][k] =
                [st |-> "ok",
                 text |-> toLowerCase(DocText(Content(files, identityFilePaths[i][k])))]]
    /\ UNCHANGED <<active, response, call, isDocumentTypeMatched, now, faults, files, pc, req,
                   photoFetch, idFetch, downloadedFiles, photoFilePath, identityFilePaths,
                   extractedText, match, faceIdx, faceStage, faceLog, faceResult, del,
                   exit, result, written, releaseLog, unlinkFailed>>

\* an extractText without the inner catch: one failed extraction rejects the batch
TextExtractionFailed_rejects(i, k) ==
    /\ pc[i] = "extract"
    /\ k \in 1..Len(ocr[i])
    /\ ocr[i][k].st = "pending"
    /\ IF existsSync(files, identityFilePaths[i][k])
       THEN MayFail /\ faults' = faults + 1
       ELSE faults' = faults
    /\ ocr' = [ocr EXCEPT ![i][k] = [st |-> "failed", text |-> <<>>]]
    /\ exit' = [exit EXCEPT ![i] = "throw"]
    /\ del' = [del EXCEPT ![i] = deleteFiles(downloadedFiles[i], files)]
    /\ releaseLog' = [releaseLog EXCEPT ![i] = @ \o downloadedFiles[i]]
    /\ pc' = [pc EXCEPT ![i] = "finally"]
    /\ UNCHANGED <<active, response, call, isDocumentTypeMatched, now, files, req,
                   photoFetch, idFetch, downloadedFiles, photoFilePath, identityFilePaths,
                   extractedText, match, faceIdx, faceStage, faceLog, faceResult, result,
                   written, unlinkFailed>>

\* extractTextFromFile throws (no file to read, or the service fails): extractText's
\* catch makes it ''
TextExtractionFailed(i, k) ==
    /\ pc[i] = "extract"
    /\ k \in 1..Len(ocr[i])
    /\ ocr[i][k].st = "pending"
    /\ IF existsSync(files, identityFilePaths[i][k])
       THEN MayFail /\ faults' = faults + 1
       ELSE faults' = faults
    /\ ocr' = [ocr EXCEPT ![i][k] = [st |-> "failed", text |-> <<>>]]
    /\ UNCHANGED <<active, response, call, isDocumentTypeMatched, now, files, pc, req,
                   photoFetch, idFetch, downloadedFiles, photoFilePath, identityFilePaths,
                   extractedText, match, faceIdx, faceStage, faceLog, faceResult, del,
                   exit, result, written, releaseLog, unlinkFailed>>

\* Phase 2 fails: deleteFiles is called before the return
DocumentTypeRejected(i) ==
    /\ pc[i] = "extract"
    /\ AllSettled(ocr[i])
    /\ ~_validateDocumentType(CombinedText(ocr[i]), req[i].type)
    /\ isDocumentTypeMatched' = [isDocumentTypeMatched EXCEPT ![i] = "false"]
    /\ extractedText' = [extractedText EXCEPT ![i] = CombinedText(ocr[i])]
    /\ del' = [del EXCEPT ![i] = deleteFiles(downloadedFiles[i], files)]
    /\ releaseLog' = [releaseLog EXCEPT ![i] = @ \o downloadedFiles[i]]
    /\ pc' = [pc EXCEPT ![i] = "gateCleanup"]
    /\ UNCHANGED <<active, response, call, now, faults, files, req, photoFetch, idFetch,
                   downloadedFiles, photoFilePath, identityFilePaths, ocr, match, faceIdx,
                   faceStage, faceLog, faceResult, exit, result, written, unlinkFailed>>

\* Phase 2 passes and Phase 3 computes the flags; Phase 4 begins
FieldsMatched(i) ==
    /\ pc[i] = "extract"
    /\ AllSettled(ocr[i])
    /\ _validateDocumentType(CombinedText(ocr[i]), req[i].type)
    /\ ~FieldMatching(CombinedText(ocr[i]), req[i]).threw
    /\ isDocumentTypeMatched' = [isDocumentTypeMatched EXCEPT ![i] = "true"]
    /\ extractedText' = [extractedText EXCEPT ![i] = CombinedText(ocr[i])]
    /\ match' = [match EXCEPT ![i] = FieldMatching(CombinedText(ocr[i]), req[i])]
    /\ faceIdx' = [faceIdx EXCEPT ![i] = 1]
    /\ faceStage' = [faceStage EXCEPT ![i] = "detect"]
    /\ pc' = [pc EXCEPT ![i] = "face"]
    /\ UNCHANGED <<active, response, call, now, faults, files, req, photoFetch, idFetch,
                   downloadedFiles, photoFilePath, identityFilePaths, ocr, faceLog,
                   faceResult, del, exit, result, written, releaseLog, unlinkFailed>>

\* Phase 2 passes and Phase 3 throws: catch rethrows, finally calls deleteFiles
FieldMatchingThrew(i) ==
    /\ pc[i] = "extract"
    /\ AllSettled(ocr[i])
    /\ _validateDocumentType(CombinedText(ocr[i]), req[i].type)
    /\ FieldMatching(CombinedText(ocr[i]), req[i]).threw
    /\ isDocumentTypeMatched' = [isDocumentTypeMatched EXCEPT ![i] = "true"]
    /\ extractedText' = [extractedText EXCEPT ![i] = CombinedText(ocr[i])]
    /\ exit' = [exit EXCEPT ![i] = "throw"]
    /\ del' = [del EXCEPT ![i] = deleteFiles(downloadedFiles[i], files)]
    /\ releaseLog' = [releaseLog EXCEPT ![i] = @ \o downloadedFiles[i]]
    /\ pc' = [pc EXCEPT ![i] = "finally"]
    /\ UNCHANGED <<active, response, call, now, faults, files, req, photoFetch, idFetch,
                   downloadedFiles, photoFilePath, identityFilePaths, ocr, match, faceIdx,
                   faceStage, faceLog, faceResult, result, written, unlinkFailed>>

(***************************************************************************)
(* AWSRekognitionService.compareFacesWithIdentity: the candidate loop.     *)
(***************************************************************************)
Candidate(i) == identityFilePaths[i][faceIdx[i]]

AtCandidate(i, stage) ==
    /\ pc[i] = "face"
    /\ faceIdx[i] \in 1..Len(identityFilePaths[i])
    /\ faceStage[i] = stage

Logged(i, op, res) ==
    faceLog' = [faceLog EXCEPT ![i] = Append(@, [op |-> op, idx |-> faceIdx[i], res |-> res])]

NextCandidate(i) ==
    /\ faceIdx' = [faceIdx EXCEPT ![i] = @ + 1]
    /\ faceStage' = [faceStage EXCEPT ![i] = "detect"]

\* detectFaces finds a face in the candidate: compareFaces is called
FacesDetected(i) ==
    /\ AtCandidate(i, "detect")
    /\ existsSync(files, Candidate(i))
    /\ DocFace(Content(files, Candidate(i))) # "none"
    /\ Logged(i, "detect", "faces")
    /\ faceStage' = [faceStage EXCEPT ![i] = "compare"]
    /\ UNCHANGED <<active, response, call, isDocumentTypeMatched, now, faults, files, pc, req,
                   photoFetch, idFetch, downloadedFiles, photoFilePath, identityFilePaths,
                   ocr, extractedText, match, faceIdx, faceResult, del, exit, result,
                   written, releaseLog, unlinkFailed>>

\* detectFaces finds no face in the candidate
NoFaceDetected(i) ==
    /\ AtCandidate(i, "detect")
    /\ existsSync(files, Candidate(i))
    /\ DocFace(Content(files, Candidate(i))) = "none"
    /\ Logged(i, "detect", "none")
    /\ NextCandidate(i)
    /\ UNCHANGED <<active, response, call, isDocumentTypeMatched, now, faults, files, pc, req,
                   photoFetch, idFetch, downloadedFiles, photoFilePath, identityFilePaths,
                   ocr, extractedText, match, faceResult, del, exit, result, written,
                   releaseLog, unlinkFailed>>

\* a loop without the catch: a detectFaces error ends the scan with no match
FaceDetectionFailed_endsScan(i) ==
    /\ AtCandidate(i, "detect")
    /\ IF existsSync(files, Candidate(i))
       THEN MayFail /\ faults' = faults + 1
       ELSE faults' = faults
    /\ Logged(i, "detect", "error")
    /\ faceResult' = [faceResult EXCEPT ![i] = [isFaceMatched |-> FALSE, confidence |-> 0]]
    /\ pc' = [pc EXCEPT ![i] = "aggregate"]
    /\ UNCHANGED <<active, response, call, isDocumentTypeMatched, now, files, req, photoFetch,
                   idFetch, downloadedFiles, photoFilePath, identityFilePaths, ocr,
                   extractedText, match, faceIdx, faceStage, del, exit, result, written,
                   releaseLog, unlinkFailed>>

\* detectFaces throws (no file to read, or the service fails): the loop's catch continues
FaceDetectionFailed(i) ==
    /\ AtCandidate(i, "detect")
    /\ IF existsSync(files, Candidate(i))
       THEN MayFail /\ faults' = faults + 1
       ELSE faults' = faults
    /\ Logged(i, "detect", "error")
    /\ NextCandidate(i)
    /\ UNCHANGED <<active, response, call, isDocumentTypeMatched, now, files, pc, req,
                   photoFetch, idFetch, downloadedFiles, photoFilePath, identityFilePaths,
                   ocr, extractedText, match, faceResult, del, exit, result, written,
                   releaseLog, unlinkFailed>>

Readable(i) == existsSync(files, photoFilePath[i]) /\ existsSync(files, Candidate(i))

\* the Similarity of FaceMatches[0], when the service reports a match
CandidateSimilarity(i) ==
    Similarity(Content(files, photoFilePath[i]), Content(files, Candidate(i)))

\* a loop without the return: a match is recorded and the scan goes on
FaceMatched_keepsScanning(i) ==
    /\ AtCandidate(i, "compare")
    /\ Readable(i)
    /\ CandidateSimilarity(i) >= SimilarityThreshold
    /\ Logged(i, "compare", "match")
    /\ faceResult' = [faceResult EXCEPT ![i] =
                        [isFaceMatched |-> TRUE, confidence |-> CandidateSimilarity(i)]]
    /\ NextCandidate(i)
    /\ UNCHANGED <<active, response, call, isDocumentTypeMatched, now, faults, files, pc, req,
                   photoFetch, idFetch, downloadedFiles, photoFilePath, identityFilePaths,
                   ocr, extractedText, match, del, exit, result, written, releaseLog,
                   unlinkFailed>>

\* compareFaces reports a match: compareFacesWithIdentity returns it
FaceMatched(i) ==
    /\ AtCandidate(i, "compare")
    /\ Readable(i)
    /\ CandidateSimilarity(i) >= SimilarityThreshold
    /\ Logged(i, "compare", "match")
    /\ faceResult' = [faceResult EXCEPT ![i] =
                        [isFaceMatched |-> TRUE, confidence |-> CandidateSimilarity(i)]]
    /\ pc' = [pc EXCEPT ![i] = "aggregate"]
    /\ UNCHANGED <<active, response, call, isDocumentTypeMatched, now, faults, files, req,
                   photoFetch, idFetch, downloadedFiles, photoFilePath, identityFilePaths,
                   ocr, extractedText, match, faceIdx, faceStage, del, exit, result,
                   written, releaseLog, unlinkFailed>>

\* compareFaces reports no match (FaceMatches is empty)
FaceNotMatched(i) ==
    /\ AtCandidate(i, "compare")
    /\ Readable(i)
    /\ CandidateSimilarity(i) < SimilarityThreshold
    /\ Logged(i, "compare", "nomatch")
    /\ NextCandidate(i)
    /\ UNCHANGED <<active, response, call, isDocumentTypeMatched, now, faults, files, pc, req,
                   photoFetch, idFetch, downloadedFiles, photoFilePath, identityFilePaths,
                   ocr, extractedText, match, faceResult, del, exit, result, written,
                   releaseLog, unlinkFailed>>

\* compareFaces throws (a file is gone, or the service fails): the loop's catch continues
FaceComparisonFailed(i) ==
    /\ AtCandidate(i, "compare")
    /\ IF Readable(i)
       THEN MayFail /\ faults' = faults + 1
       ELSE faults' = faults
    /\ Logged(i, "compare", "error")
    /\ NextCandidate(i)
    /\ UNCHANGED <<active, response, call, isDocumentTypeMatched, now, files, pc, req,
                   photoFetch, idFetch, downloadedFiles, photoFilePath, identityFilePaths,
                   ocr, extractedText, match, faceResult, del, exit, result, written,
                   releaseLog, unlinkFailed>>

\* the loop ends without a match
FaceScanExhausted(i) ==
    /\ pc[i] = "face"
    /\ faceIdx[i] > Len(identityFilePaths[i])
    /\ faceResult' = [faceResult EXCEPT ![i] = [isFaceMatched |-> FALSE, confidence |-> 0]]
    /\ pc' = [pc EXCEPT ![i] = "aggregate"]
    /\ UNCHANGED <<active, response, call, isDocumentTypeMatched, now, faults, files, req,
                   photoFetch, idFetch, downloadedFiles, photoFilePath, identityFilePaths,
                   ocr, extractedText, match, faceIdx, faceStage, faceLog, del, exit,
                   result, written, releaseLog, unlinkFailed>>

(***************************************************************************)
(* verifyIdentity: verdict, message, result and cleanup.                   *)
(***************************************************************************)
\* the object verifyIdentity returns after a full run (isDocumentTypeMatched is true there)
FullResult(m, face, type) ==
    [isDocumentTypeMatched |-> TRUE,
     isNameMatched |-> m.isNameMatched,
     isDOBMatched |-> m.isDOBMatched,
     isIdentityCardNumberMatched |-> m.isIdentityCardNumberMatched,
     isIdentityCardNumberFormatValid |-> m.isIdentityCardNumberFormatValid,
     isFaceMatched |-> face.isFaceMatched,
     confidence |-> face.confidence,
     isVerification |->
        _determineVerificationStatus(TRUE, m.isNameMatched, m.isDOBMatched,
                                     m.isIdentityCardNumberMatched, face.isFaceMatched, type),
     message |->
        _buildMessage(m.isNameMatched, m.isDOBMatched, m.isIdentityCardNumberMatched,
                      face.isFaceMatched, type)]

\* the face result is back: the result is built and returned; finally calls deleteFiles
Aggregated(i) ==
    /\ pc[i] = "aggregate"
    /\ result' = [result EXCEPT ![i] = FullResult(match[i], faceResult[i], req[i].type)]
    /\ exit' = [exit EXCEPT ![i] = "return"]
    /\ del' = [del EXCEPT ![i] = deleteFiles(downloadedFiles[i], files)]
    /\ releaseLog' = [releaseLog EXCEPT ![i] = @ \o downloadedFiles[i]]
    /\ pc' = [pc EXCEPT ![i] = "finally"]
    /\ UNCHANGED <<active, response, call, isDocumentTypeMatched, now, faults, files, req,
                   photoFetch, idFetch, downloadedFiles, photoFilePath, identityFilePaths,
                   ocr, extractedText, match, faceIdx, faceStage, faceLog, faceResult,
                   written, unlinkFailed>>

Deleting(i, k) ==
    /\ pc[i] \in {"gateCleanup", "finally"}
    /\ k \in 1..Len(del[i])
    /\ del[i][k].st = "unlinking"

\* deleteFile: unlink removes the file
Unlinked(i, k) ==
    /\ Deleting(i, k)
    /\ existsSync(files, del[i][k].path)
    /\ files' = unlink(files, del[i][k].path)
    /\ del' = [del EXCEPT ![i][k].st = "deleted"]
    /\ UNCHANGED <<active, response, call, isDocumentTypeMatched, now, faults, pc, req,
                   photoFetch, idFetch, downloadedFiles, photoFilePath, identityFilePaths,
                   ocr, extractedText, match, faceIdx, faceStage, faceLog, faceResult,
                   exit, result, written, releaseLog, unlinkFailed>>

\* a deleteFile without the catch: the unlink error leaves finally and replaces the outcome
UnlinkFailed_throws(i, k) ==
    /\ Deleting(i, k)
    /\ IF existsSync(files, del[i][k].path)
       THEN /\ MayFail
            /\ faults' = faults + 1
            /\ unlinkFailed' = [unlinkFailed EXCEPT ![i] = @ \cup {del[i][k].path}]
       ELSE UNCHANGED <<faults, unlinkFailed>>
    /\ del' = [del EXCEPT ![i][k].st = "failed"]
    /\ exit' = [exit EXCEPT ![i] = "throw"]
    /\ result' = [result EXCEPT ![i] = <<>>]
    /\ UNCHANGED <<active, response, call, isDocumentTypeMatched, now, files, pc, req,
                   photoFetch, idFetch, downloadedFiles, photoFilePath, identityFilePaths,
                   ocr, extractedText, match, faceIdx, faceStage, faceLog, faceResult,
                   written, releaseLog>>

\* deleteFile: unlink throws (the file is gone meanwhile, or the file system refuses);
\* the catch logs it
UnlinkFailed(i, k) ==
    /\ Deleting(i, k)
    /\ IF existsSync(files, del[i][k].path)
       THEN /\ MayFail
            /\ faults' = faults + 1
            /\ unlinkFailed' = [unlinkFailed EXCEPT ![i] = @ \cup {del[i][k].path}]
       ELSE UNCHANGED <<faults, unlinkFailed>>
    /\ del' = [del EXCEPT ![i][k].st = "failed"]
    /\ UNCHANGED <<active, response, call, isDocumentTypeMatched, now, files, pc, req,
                   photoFetch, idFetch, downloadedFiles, photoFilePath, identityFilePaths,
                   ocr, extractedText, match, faceIdx, faceStage, faceLog, faceResult,
                   exit, result, written, releaseLog>>

\* the gate's deleteFiles is over: the short object is returned; finally calls
\* deleteFiles again
GateCleanupDone(i) ==
    /\ pc[i] = "gateCleanup"
    /\ AllSettled(del[i])
    /\ result' = [result EXCEPT ![i] = GateFailureResult(req[i].type)]
    /\ exit' = [exit EXCEPT ![i] = "return"]
    /\ del' = [del EXCEPT ![i] = deleteFiles(downloadedFiles[i], files)]
    /\ releaseLog' = [releaseLog EXCEPT ![i] = @ \o downloadedFiles[i]]
    /\ pc' = [pc EXCEPT ![i] = "finally"]
    /\ UNCHANGED <<active, response, call, isDocumentTypeMatched, now, faults, files, req,
                   photoFetch, idFetch, downloadedFiles, photoFilePath, identityFilePaths,
                   ocr, extractedText, match, faceIdx, faceStage, faceLog, faceResult,
                   written, unlinkFailed>>

\* finally's deleteFiles is over: verifyIdentity returns or throws
Finished(i) ==
    /\ pc[i] = "finally"
    /\ AllSettled(del[i])
    /\ pc' = [pc EXCEPT ![i] = "done"]
    /\ UNCHANGED <<active, response, call, isDocumentTypeMatched, now, faults, files, req,
                   photoFetch, idFetch, downloadedFiles, photoFilePath, identityFilePaths,
                   ocr, extractedText, match, faceIdx, faceStage, faceLog, faceResult, del,
                   exit, result, written, releaseLog, unlinkFailed>>

Next ==
    \/ \E i \in active : Start(i)
    \/ \E i \in active : PhotoFetched(i)
    \/ \E i \in active : PhotoFetchFailed(i)
    \/ \E i \in active, k \in 1..MaxUrls : IdentityFetched(i, k)
    \/ \E i \in active, k \in 1..MaxUrls : IdentityFetchFailed(i, k)
    \/ \E i \in active : FetchRejected(i)
    \/ \E i \in active : FetchJoined(i)
    \/ \E i \in active, k \in 1..MaxUrls : TextExtracted(i, k)
    \/ \E i \in active, k \in 1..MaxUrls : TextExtractionFailed(i, k)
    \/ \E i \in active : DocumentTypeRejected(i)
    \/ \E i \in active : FieldsMatched(i)
    \/ \E i \in active : FieldMatchingThrew(i)
    \/ \E i \in active : FacesDetected(i)
    \/ \E i \in active : NoFaceDetected(i)
    \/ \E i \in active : FaceDetectionFailed(i)
    \/ \E i \in active : FaceMatched(i)
    \/ \E i \in active : FaceNotMatched(i)
    \/ \E i \in active : FaceComparisonFailed(i)
    \/ \E i \in active : FaceScanExhausted(i)
    \/ \E i \in active : Aggregated(i)
    \/ \E i \in active, k \in 1..(MaxUrls + 1) : Unlinked(i, k)
    \/ \E i \in active, k \in 1..(MaxUrls + 1) : UnlinkFailed(i, k)
    \/ \E i \in active : GateCleanupDone(i)
    \/ \E i \in active : Finished(i)

Spec == Init /\ [][Next]_vars

SpecConcurrent == InitConcurrent /\ [][Next]_vars

\* the requests of the runs that are followed to their end
LiveRequests ==
    { r \in Requests :
        /\ r.name = <<"Ravi">>
        /\ r.dob.kind \in {"string", "number"}
        /\ r.dob.kind = "string" => r.dob.v = <<"06", "/", "06", "/", "1995">>
        /\ r.identityCardNumber = <<"1234", SP, "5678", SP, "9012">>
        /\ r.type \in {"aadhar", "passport", "other"} }

StartLive(i) ==
    /\ pc[i] = "init"
    /\ \E r \in LiveRequests, t \in ClockReadings : StartWith(i, r, t)

\* the steps of a run but the two that follow a passed gate
AwaitedSteps ==
    \/ \E i \in active : StartLive(i)
    \/ \E i \in active : PhotoFetched(i)
    \/ \E i \in active : PhotoFetchFailed(i)
    \/ \E i \in active, k \in 1..MaxUrls : IdentityFetched(i, k)
    \/ \E i \in active, k \in 1..MaxUrls : IdentityFetchFailed(i, k)
    \/ \E i \in active : FetchRejected(i)
    \/ \E i \in active : FetchJoined(i)
    \/ \E i \in active, k \in 1..MaxUrls : TextExtracted(i, k)
    \/ \E i \in active, k \in 1..MaxUrls : TextExtractionFailed(i, k)
    \/ \E i \in active : DocumentTypeRejected(i)
    \/ \E i \in active : FacesDetected(i)
    \/ \E i \in active : NoFaceDetected(i)
    \/ \E i \in active : FaceDetectionFailed(i)
    \/ \E i \in active : FaceMatched(i)
    \/ \E i \in active : FaceNotMatched(i)
    \/ \E i \in active : FaceComparisonFailed(i)
    \/ \E i \in active : FaceScanExhausted(i)
    \/ \E i \in active : Aggregated(i)
    \/ \E i \in active, k \in 1..(MaxUrls + 1) : Unlinked(i, k)
    \/ \E i \in active, k \in 1..(MaxUrls + 1) : UnlinkFailed(i, k)
    \/ \E i \in active : GateCleanupDone(i)
    \/ \E i \in active : Finished(i)

\* the gate has passed and Phase 3 runs, to the face phase or to its throw
GatePassed(i) ==
    /\ pc[i] = "extract"
    /\ AllSettled(ocr[i])
    /\ _validateDocumentType(CombinedText(ocr[i]), req[i].type)
    /\ pc' \in {[pc EXCEPT ![i] = "face"], [pc EXCEPT ![i] = "finally"]}

NextLive ==
    \/ AwaitedSteps
    \/ \E i \in active : FieldsMatched(i)
    \/ \E i \in active : FieldMatchingThrew(i)

\* Every external call that has been started settles, and the code that follows a
\* settled await runs: while a step of the run is possible, one is taken.
SpecLive ==
    /\ Init /\ [][NextLive]_vars
    /\ WF_vars(AwaitedSteps)
    /\ WF_pc(\E i \in active : GatePassed(i))

(***************************************************************************)
(* VerificationController and ResponseBuilder: POST /verify-identity.      *)
(* A missing or empty string is <<>>, a missing or empty URL is EmptyUrl,  *)
(* a missing type is "".                                                   *)
(***************************************************************************)
EmptyUrl == [kind |-> "", doc |-> ""]

\* s.trim().length === 0
Blank(s) == stripWhitespace(s) = <<>>

\* /^\d{2}\/\d{2}\/\d{4}$/.test(dob); a dob that is not a string never has this shape
dobRegex(dob) ==
    /\ dob.kind = "string"
    /\ Len(dob.v) = 5
    /\ dob.v[2] = "/" /\ dob.v[4] = "/"
    /\ \A k \in {1, 3, 5} : IsDigits(dob.v[k])
    /\ AlnumWidth(dob.v[1]) = 2 /\ AlnumWidth(dob.v[3]) = 2 /\ AlnumWidth(dob.v[5]) = 4

validTypes == {"aadhar", "passport", "other"}

\* the error of the first rule the body breaks, "" when it breaks none
_validateRequest(body) ==
    IF Blank(body.name) THEN "name is required and must be a non-empty string"
    ELSE IF body.photoUrl = EmptyUrl THEN "photoUrl is required and must be a non-empty string"
    ELSE IF body.identityUrls = <<>>
    THEN "identityUrls is required and must be a non-empty array"
    ELSE IF \E k \in 1..Len(body.identityUrls) : body.identityUrls[k] = EmptyUrl
    THEN "identityUrls must contain only non-empty strings"
    ELSE IF body.type \notin validTypes
    THEN "type is required and must be one of: aadhar, passport, other"
    ELSE IF body.type \in {"aadhar", "passport"} /\ (DobMissing(body.dob) \/ body.dob.kind # "string")
    THEN "dob is required for aadhar and passport types"
    ELSE IF ~DobMissing(body.dob) /\ ~dobRegex(body.dob) THEN "dob must be in DD/MM/YYYY format"
    ELSE IF body.type \in {"aadhar", "passport"} /\ body.identityCardNumber = <<>>
    THEN "identityCardNumber is required for aadhar and passport types"
    ELSE IF body.identityCardNumber # <<>> /\ Blank(body.identityCardNumber)
    THEN "identityCardNumber must be a non-empty string"
    ELSE ""

\* the object has the field (a field it lacks reads as undefined)
Has(r, f) == f \in DOMAIN r

\* ResponseBuilder.success: x ?? fallback for the fields the code always sets,
\* message || 'Verification complete'
success(verificationResult) ==
    LET r == verificationResult
    IN  [isDocumentTypeMatched |->
            IF Has(r, "isDocumentTypeMatched") THEN r.isDocumentTypeMatched ELSE FALSE,
         isNameMatched |-> IF Has(r, "isNameMatched") THEN r.isNameMatched ELSE FALSE,
         isDOBMatched |-> IF Has(r, "isDOBMatched") THEN r.isDOBMatched ELSE "undefined",
         isIdentityCardNumberMatched |->
            IF Has(r, "isIdentityCardNumberMatched") THEN r.isIdentityCardNumberMatched
            ELSE "undefined",
         isFaceMatched |-> IF Has(r, "isFaceMatched") THEN r.isFaceMatched ELSE FALSE,
         confidence |-> IF Has(r, "confidence") THEN r.confidence ELSE 0,
         isVerification |-> IF Has(r, "isVerification") THEN r.isVerification ELSE FALSE,
         message |-> IF Has(r, "message") /\ r.message # "" THEN r.message
                     ELSE "Verification complete"]

\* ResponseBuilder.documentTypeError
documentTypeError(documentType) ==
    [isDocumentTypeMatched |-> FALSE,
     message |-> IF documentType = "aadhar" THEN "aadhar not found" ELSE "passport not found"]

\* ResponseBuilder.validationError
validationError(message) == [error |-> "Validation Error", message |-> message]

\* the bodies that are posted
HttpBodies ==
    [ name : Names \cup {<<>>, <<SP>>},
      dob : Dobs \cup {[kind |-> "string", v |-> <<"1995", "-", "06", "-", "06">>]},
      identityCardNumber : IdentityCardNumbers \cup {<<SP>>},
      photoUrl : PhotoUrlSet \cup {EmptyUrl},
      identityUrls : SeqsUpTo(IdentityUrlSet, MaxUrls) \cup {<<>>, <<EmptyUrl>>},
      type : Types \cup {""} ]

\* the controller answers 400 to a body that fails validation, without calling the service
RequestRejected(i) ==
    /\ pc[i] = "init"
    /\ \E body \in HttpBodies :
        /\ _validateRequest(body) # ""
        /\ req' = [req EXCEPT ![i] = body]
        /\ response' = [response EXCEPT ![i] =
                          [status |-> 400, body |-> validationError(_validateRequest(body))]]
    /\ pc' = [pc EXCEPT ![i] = "rejected"]
    /\ UNCHANGED <<active, call, isDocumentTypeMatched, now, faults, files, photoFetch,
                   idFetch, downloadedFiles, photoFilePath, identityFilePaths, ocr,
                   extractedText, match, faceIdx, faceStage, faceLog, faceResult, del, exit,
                   result, written, releaseLog, unlinkFailed>>

\* the controller calls verificationService.verifyIdentity(req.body)
RequestAccepted(i) ==
    /\ pc[i] = "init"
    /\ \E body \in HttpBodies, t \in ClockReadings :
        /\ _validateRequest(body) = ""
        /\ StartWith(i, body, t)

\* a controller that answers a failed verification as an error
Responded_falseVerdictIsAnError(i) ==
    /\ pc[i] = "done"
    /\ response[i] = NoResponse
    /\ response' = [response EXCEPT ![i] =
            IF exit[i] = "throw"
            THEN [status |-> 500,
                  body |-> [error |-> "Internal Server Error",
                            message |-> "An error occurred during verification"]]
            ELSE IF Has(result[i], "isVerification") /\ result[i].isVerification
            THEN [status |-> 200, body |-> success(result[i])]
            ELSE [status |-> 400, body |-> success(result[i])]]
    /\ UNCHANGED <<active, call, isDocumentTypeMatched, now, faults, files, pc, req,
                   photoFetch, idFetch, downloadedFiles, photoFilePath, identityFilePaths,
                   ocr, extractedText, match, faceIdx, faceStage, faceLog, faceResult, del,
                   exit, result, written, releaseLog, unlinkFailed>>

\* verifyIdentity has returned or thrown: the controller answers
Responded(i) ==
    /\ pc[i] = "done"
    /\ response[i] = NoResponse
    /\ response' = [response EXCEPT ![i] =
            IF exit[i] = "throw"
            THEN [status |-> 500,
                  body |-> [error |-> "Internal Server Error",
                            message |-> "An error occurred during verification"]]
            ELSE IF /\ Has(result[i], "isDocumentTypeMatched")
                    /\ result[i].isDocumentTypeMatched = FALSE
                    /\ Has(result[i], "message") /\ result[i].message # ""
            THEN [status |-> 400, body |-> documentTypeError(req[i].type)]
            ELSE [status |-> 200, body |-> success(result[i])]]
    /\ UNCHANGED <<active, call, isDocumentTypeMatched, now, faults, files, pc, req,
                   photoFetch, idFetch, downloadedFiles, photoFilePath, identityFilePaths,
                   ocr, extractedText, match, faceIdx, faceStage, faceLog, faceResult, del,
                   exit, result, written, releaseLog, unlinkFailed>>

\* A body that passes validation never makes _formatDOB throw (its dob is a string or,
\* for type other, not looked at), so that step of verifyIdentity is not among these.
NextHttp ==
    \/ \E i \in active : RequestRejected(i)
    \/ \E i \in active : RequestAccepted(i)
    \/ \E i \in active : PhotoFetched(i)
    \/ \E i \in active : PhotoFetchFailed(i)
    \/ \E i \in active, k \in 1..MaxUrls : IdentityFetched(i, k)
    \/ \E i \in active, k \in 1..MaxUrls : IdentityFetchFailed(i, k)
    \/ \E i \in active : FetchRejected(i)
    \/ \E i \in active : FetchJoined(i)
    \/ \E i \in active, k \in 1..MaxUrls : TextExtracted(i, k)
    \/ \E i \in active, k \in 1..MaxUrls : TextExtractionFailed(i, k)
    \/ \E i \in active : DocumentTypeRejected(i)
    \/ \E i \in active : FieldsMatched(i)
    \/ \E i \in active : FacesDetected(i)
    \/ \E i \in active : NoFaceDetected(i)
    \/ \E i \in active : FaceDetectionFailed(i)
    \/ \E i \in active : FaceMatched(i)
    \/ \E i \in active : FaceNotMatched(i)
    \/ \E i \in active : FaceComparisonFailed(i)
    \/ \E i \in active : FaceScanExhausted(i)
    \/ \E i \in active : Aggregated(i)
    \/ \E i \in active, k \in 1..(MaxUrls + 1) : Unlinked(i, k)
    \/ \E i \in active, k \in 1..(MaxUrls + 1) : UnlinkFailed(i, k)
    \/ \E i \in active : GateCleanupDone(i)
    \/ \E i \in active : Finished(i)
    \/ \E i \in active : Responded(i)

SpecHttp == Init /\ [][NextHttp]_vars

(***************************************************************************)
(* The policy functions called on their own, on inputs of their own.       *)
(***************************************************************************)
\* the six ways a document may print the date of day d, month m, year y
DateRepresentations(d, m, y) ==
    { <<d, "/", m, "/", y>>, <<d, "-", m, "-", y>>, <<y, "-", m, "-", d>>,
      <<y, "/", m, "/", d>>, <<d, m, y>>, <<y, m, d>> }

\* the dob strings of the calls: DD/MM/YYYY
PolicyDobs == { <<d, "/", m, "/", "1995">> : d \in DayAtoms, m \in MonthAtoms }

\* the corpora of the calls: a line without a date, and lines that print one date one way
PolicyCorpora ==
    { <<"ravi", SP, "male">> }
    \cup { <<"dob", SP>> \o rep \o <<SP, "male">> :
              rep \in UNION { DateRepresentations(d, m, "1995") : d \in DayAtoms, m \in MonthAtoms } }

\* the identity card numbers of the calls
PolicyNumbers ==
    { <<"1234", SP, "5678", SP, "9012">>, <<"1234", "5678", "9012">>, <<"12345">>,
      <<"1234", SP, "5678">>, <<"1234", "12345">>, <<"P1234567">>, <<"p1234567">>,
      <<"P1234567", "05">>, <<"1234", "-", "5678">> }

(***************************************************************************)
(* Object-storage URLs.  A URL is a text whose atoms are the scheme, the   *)
(* host labels, the path segments and the separators "." and "/".  No      *)
(* label of the model ends in "s3" or begins with "com" but the labels     *)
(* "s3" and "com" themselves, so a substring test on the host is a test on *)
(* whole atoms.                                                            *)
(***************************************************************************)
HTTPS == "https://"

\* s.split('.')
RECURSIVE splitDot(_)
splitDot(s) ==
    IF \A k \in 1..Len(s) : s[k] # "." THEN <<s>>
    ELSE LET k == CHOOSE j \in 1..Len(s) : s[j] = "." /\ \A h \in 1..(j - 1) : s[h] # "."
         IN  <<SubSeq(s, 1, k - 1)>> \o splitDot(SubSeq(s, k + 1, Len(s)))

\* new URL(s) throws for a string without a scheme or without a host
IsUrl(s) == Len(s) >= 2 /\ s[1] = HTTPS /\ s[2] \notin {"/", "."}

\* where the path of a URL begins: its first "/" after the scheme, or past its end
PathStart(s) ==
    IF \E k \in 2..Len(s) : s[k] = "/"
    THEN CHOOSE k \in 2..Len(s) : s[k] = "/" /\ \A h \in 2..(k - 1) : s[h] # "/"
    ELSE Len(s) + 1

\* url.hostname
hostname(s) == SubSeq(s, 2, PathStart(s) - 1)

\* the percent-encoding the URL parser gives a path segment
PercentEncoded(atom) == IF atom = "my docs" THEN "my%20docs" ELSE atom

\* url.pathname: "/" for a URL without a path
pathname(s) ==
    IF PathStart(s) > Len(s) THEN <<"/">>
    ELSE [k \in 1..(Len(s) - PathStart(s) + 1) |-> PercentEncoded(s[PathStart(s) + k - 1])]

\* array.filter(p => p)
NonEmptyParts(parts) == SelectSeq(parts, LAMBDA part : part # <<>>)

\* S3DownloadService._parseS3Url: [ok, bucket, key]; ok is FALSE when it throws, and
\* the bucket of a URL without a path segment (undefined) is <<>>
_parseS3Url(s3Url) ==
    LET Thrown == [ok |-> FALSE, bucket |-> <<>>, key |-> <<>>]
    IN  IF ~IsUrl(s3Url) THEN Thrown
        ELSE LET host == hostname(s3Url)
                 hasS3 == includes(host, <<".", "s3", ".">>)
                 hasS3Amazon == includes(host, <<"s3", ".", "amazonaws", ".", "com">>)
                 startsWithS3 == Len(host) >= 2 /\ host[1] = "s3" /\ host[2] = "."
                 pathParts == NonEmptyParts(splitSlash(pathname(s3Url)))
             IN  IF hasS3 \/ hasS3Amazon
                 THEN IF startsWithS3 \/ hasS3Amazon
                      THEN [ok |-> TRUE,
                            bucket |-> IF pathParts = <<>> THEN <<>> ELSE pathParts[1],
                            key |-> IF pathParts = <<>> THEN <<>>
                                    ELSE join(Tail(pathParts), <<"/">>)]
                      ELSE [ok |-> TRUE,
                            bucket |-> splitDot(host)[1],
                            key |-> join(pathParts, <<"/">>)]
                 ELSE Thrown

\* the host of the object-storage service, with the region or (region "") without one
ServiceHost(region) ==
    <<"s3">> \o (IF region = "" THEN <<>> ELSE <<".", region>>) \o <<".", "amazonaws", ".", "com">>

\* https://bucket.s3.region.amazonaws.com/key
VirtualHostedUrl(bucket, region, key) ==
    <<HTTPS>> \o bucket \o <<".">> \o ServiceHost(region) \o <<"/">> \o key

\* https://s3.region.amazonaws.com/bucket/key
PathStyleUrl(bucket, region, key) ==
    <<HTTPS>> \o ServiceHost(region) \o <<"/">> \o bucket \o <<"/">> \o key

Regions == {"", "us-east-1", "eu-west-1"}
Buckets == { <<"photos">> }
Keys ==
    { <<"photo.jpg">>, <<"documents", "/", "photo.jpg">>,
      <<"documents", "/", "/", "photo.jpg">> }

\* the URLs given to _parseS3Url, each with the layout, bucket and key it was written from
ParsedUrls ==
    { [s3Url |-> VirtualHostedUrl(b, r, k), layout |-> "virtual-hosted", bucket |-> b, key |-> k] :
        b \in Buckets, r \in Regions, k \in Keys }
    \cup
    { [s3Url |-> PathStyleUrl(b, r, k), layout |-> "path", bucket |-> b, key |-> k] :
        b \in Buckets, r \in Regions, k \in Keys }
    \cup
    { [s3Url |-> u, layout |-> "neither", bucket |-> <<>>, key |-> <<>>] :
        u \in { <<HTTPS, "example", ".", "com", "/", "photo.jpg">>,
                <<HTTPS, "cdn", ".", "s3", ".", "example", ".", "com", "/", "photo.jpg">>,
                <<HTTPS, "s3", ".", "example", ".", "com", "/", "photos", "/", "photo.jpg">>,
                <<"photos", "/", "photo.jpg">> } }

\* S3UploadService.uploadToS3, after the upload: the URL it builds for the key
\* folder/uniqueFileName (uniqueFileName alone without a folder), and what it reports
uploadToS3(bucketName, region, folder, uniqueFileName) ==
    LET s3Key == IF folder # <<>> THEN folder \o <<"/", uniqueFileName>> ELSE <<uniqueFileName>>
    IN  [url |-> IF region = "us-east-1"
                 THEN <<HTTPS>> \o bucketName \o <<".", "s3", ".", "amazonaws", ".", "com", "/">> \o s3Key
                 ELSE <<HTTPS>> \o bucketName \o <<".", "s3", ".", region, ".", "amazonaws", ".", "com", "/">>
                      \o s3Key,
         key |-> s3Key,
         bucket |-> bucketName]

\* this.region: the configured region, 'us-east-1' when none is configured
ConfiguredRegions == {"us-east-1", "eu-west-1"}
\* AWS_S3_BUCKET
BucketNames == { <<"photos">>, <<"my", ".", "bucket">> }
\* the folder argument: none, the default, a nested one, one with a space
Folders == { <<>>, <<"documents">>, <<"kyc", "/", "2024">>, <<"my docs">> }
\* sanitizedFileName_uuid.ext
UniqueFileNames == {"photo_4f1c.jpg"}

PolicyCalls ==
    [fn : {"_matchDOB"}, out : {"pending"},
     args : [extractedText : PolicyCorpora, dob : PolicyDobs]]
    \cup
    [fn : {"_validateIdentityCardNumberFormat"}, out : {"pending"},
     args : [identityCardNumber : PolicyNumbers, idType : Types]]
    \cup
    [fn : {"_parseS3Url"}, out : {"pending"}, args : ParsedUrls]
    \cup
    [fn : {"uploadToS3"}, out : {"pending"},
     args : [bucketName : BucketNames, region : ConfiguredRegions, folder : Folders,
             uniqueFileName : UniqueFileNames]]

InitPolicy == InitWith({1}) /\ call \in PolicyCalls

Returned(out) ==
    /\ call.out = "pending"
    /\ call' = [call EXCEPT !.out = out]
    /\ UNCHANGED <<active, now, faults, files, pc, req, photoFetch, idFetch, downloadedFiles,
                   photoFilePath, identityFilePaths, ocr, extractedText,
                   isDocumentTypeMatched, match, faceIdx, faceStage, faceLog, faceResult,
                   del, exit, result, written, releaseLog, unlinkFailed, response>>

Call_matchDOB ==
    /\ call.fn = "_matchDOB"
    /\ Returned(Flag(_matchDOB(call.args.extractedText, [kind |-> "string", v |-> call.args.dob])))

Call_validateIdentityCardNumberFormat ==
    /\ call.fn = "_validateIdentityCardNumberFormat"
    /\ Returned(Flag(_validateIdentityCardNumberFormat(call.args.identityCardNumber,
                                                        call.args.idType)))

\* _parseS3Url returns { bucket, key } or throws
Call_parseS3Url ==
    /\ call.fn = "_parseS3Url"
    /\ call.out = "pending"
    /\ LET parsed == _parseS3Url(call.args.s3Url)
       IN  call' = [fn |-> call.fn, args |-> call.args,
                    out |-> IF parsed.ok THEN "returned" ELSE "thrown",
                    bucket |-> parsed.bucket, key |-> parsed.key]
    /\ UNCHANGED <<active, now, faults, files, pc, req, photoFetch, idFetch, downloadedFiles,
                   photoFilePath, identityFilePaths, ocr, extractedText,
                   isDocumentTypeMatched, match, faceIdx, faceStage, faceLog, faceResult,
                   del, exit, result, written, releaseLog, unlinkFailed, response>>

\* uploadToS3 returns { url, key, bucket, ... }
Call_uploadToS3 ==
    /\ call.fn = "uploadToS3"
    /\ call.out = "pending"
    /\ LET uploaded == uploadToS3(call.args.bucketName, call.args.region, call.args.folder,
                                  call.args.uniqueFileName)
       IN  call' = [fn |-> call.fn, args |-> call.args, out |-> "uploaded",
                    url |-> uploaded.url, key |-> uploaded.key, bucket |-> uploaded.bucket]
    /\ UNCHANGED <<active, now, faults, files, pc, req, photoFetch, idFetch, downloadedFiles,
                   photoFilePath, identityFilePaths, ocr, extractedText,
                   isDocumentTypeMatched, match, faceIdx, faceStage, faceLog, faceResult,
                   del, exit, result, written, releaseLog, unlinkFailed, response>>

\* the URL uploadToS3 returned is given to downloadFromS3, which parses it
Call_parseUploadedUrl ==
    /\ call.fn = "uploadToS3"
    /\ call.out = "uploaded"
    /\ LET parsed == _parseS3Url(call.url)
       IN  call' = [fn |-> call.fn, args |-> call.args,
                    out |-> IF parsed.ok THEN "returned" ELSE "thrown",
                    url |-> call.url, key |-> call.key, bucket |-> call.bucket,
                    parsed |-> [bucket |-> parsed.bucket, key |-> parsed.key]]
    /\ UNCHANGED <<active, now, faults, files, pc, req, photoFetch, idFetch, downloadedFiles,
                   photoFilePath, identityFilePaths, ocr, extractedText,
                   isDocumentTypeMatched, match, faceIdx, faceStage, faceLog, faceResult,
                   del, exit, result, written, releaseLog, unlinkFailed, response>>

NextPolicy ==
    \/ Call_matchDOB
    \/ Call_validateIdentityCardNumberFormat
    \/ Call_parseS3Url
    \/ Call_uploadToS3
    \/ Call_parseUploadedUrl

SpecPolicy == InitPolicy /\ [][NextPolicy]_vars

(***************************************************************************)
(* Properties.                                                             *)
(***************************************************************************)
\* verifyIdentity has returned the result of a full run
FullRun(i) == pc[i] = "done" /\ exit[i] = "return" /\ isDocumentTypeMatched[i] = "true"

\* verifyIdentity has returned the short object of a failed gate
GateRejected(i) == pc[i] = "done" /\ exit[i] = "return" /\ isDocumentTypeMatched[i] = "false"

\* the document behind the k-th candidate of compareFacesWithIdentity
CandidateDoc(i, k) ==
    LET job == CHOOSE j \in 1..Len(idFetch[i]) : idFetch[i][j].path = identityFilePaths[i][k]
    IN  idFetch[i][job].url.doc

\* C1: a full run returns isVerification = isDocumentTypeMatched AND isNameMatched AND
\* isFaceMatched AND (type is other OR (isDOBMatched is true AND
\* isIdentityCardNumberMatched is true)), for every accepted type, 'aadhaar' included.
C1_VerdictIsTheConjunction ==
    \A i \in active :
        FullRun(i) =>
            result[i].isVerification =
                (/\ result[i].isDocumentTypeMatched
                 /\ result[i].isNameMatched
                 /\ result[i].isFaceMatched
                 /\ \/ req[i].type = "other"
                    \/ /\ result[i].isDOBMatched = "true"
                       /\ result[i].isIdentityCardNumberMatched = "true")

\* C2: once an invocation has finished, on whatever exit path, every file its downloads
\* wrote is gone (unless the file system refused to unlink it).
C2_DownloadsDeletedOnEveryExit ==
    \A i \in active :
        (pc[i] = "done" /\ unlinkFailed[i] = {}) =>
            \A path \in written[i] : ~existsSync(files, path)

\* C3: two invocations that run at the same time write disjoint sets of local paths.
C3_ConcurrentInvocationsWriteDisjointPaths ==
    \A i, j \in active :
        (i # j /\ pc[i] \notin {"init", "done"} /\ pc[j] \notin {"init", "done"}) =>
            written[i] \cap written[j] = {}

\* C4: a full run of an Aadhaar or passport request without dob (without
\* identityCardNumber) returns isDOBMatched (isIdentityCardNumberMatched) = false, not
\* undefined, and isVerification = false.
C4_MissingFieldFailsVerification ==
    \A i \in active :
        (FullRun(i) /\ req[i].type \in {"aadhaar", "passport"}) =>
            /\ DobMissing(req[i].dob) =>
                  result[i].isDOBMatched = "false" /\ ~result[i].isVerification
            /\ req[i].identityCardNumber = <<>> =>
                  result[i].isIdentityCardNumberMatched = "false" /\ ~result[i].isVerification

\* C5: a full run of a request of type other returns isDOBMatched and
\* isIdentityCardNumberMatched undefined and isVerification = isDocumentTypeMatched AND
\* isNameMatched AND isFaceMatched, whatever dob and identityCardNumber are.
C5_OtherIgnoresDobAndId ==
    \A i \in active :
        (FullRun(i) /\ req[i].type = "other") =>
            /\ result[i].isDOBMatched = "undefined"
            /\ result[i].isIdentityCardNumberMatched = "undefined"
            /\ result[i].isVerification =
                 (/\ result[i].isDocumentTypeMatched
                  /\ result[i].isNameMatched
                  /\ result[i].isFaceMatched)

\* C5 witness: type other with a dob the documents do not show and an ill-formed
\* identityCardNumber is verified all the same
C5_Witness ==
    \E i \in active :
        /\ FullRun(i) /\ req[i].type = "other"
        /\ req[i].dob.v = <<"15", "/", "06", "/", "1995">>
        /\ req[i].identityCardNumber = <<"12345">>
        /\ result[i].isVerification

\* the text holds the atom
Mentions(text, atom) == \E k \in 1..Len(text) : text[k] = atom

\* C6: the gate passes exactly when the type is aadhaar or aadhar and the corpus holds
\* 'unique identification authority', or the type is passport and the corpus holds
\* 'republic of india', or the type is other; it fails for every other type.
C6_GatePassesExactlyWhen ==
    \A i \in active :
        isDocumentTypeMatched[i] # "undefined" =>
            (isDocumentTypeMatched[i] = "true" <=>
                \/ req[i].type \in {"aadhaar", "aadhar"} /\ Mentions(extractedText[i], UIA)
                \/ req[i].type = "passport" /\ Mentions(extractedText[i], ROI)
                \/ req[i].type = "other")

\* C6 witness: the gate has passed a request of type 'aadhaar' whose corpus holds the
\* phrase 'unique identification authority'
C6_Witness ==
    \E i \in active :
        /\ req[i].type = "aadhaar"
        /\ isDocumentTypeMatched[i] = "true"
        /\ Mentions(extractedText[i], UIA)

\* C7: when the gate fails no flag of phase 3 is computed, no face call is made, and
\* the object returned holds only isDocumentTypeMatched = false and the message
\* 'aadhaar not found' (Aadhaar request) or 'passport not found' (passport request).
C7_GateFailureShortCircuits ==
    \A i \in active :
        isDocumentTypeMatched[i] = "false" =>
            /\ match[i] = NoMatch
            /\ faceLog[i] = <<>> /\ faceIdx[i] = 0 /\ pc[i] \notin {"face", "aggregate"}
            /\ faceResult[i] = NoFaceResult
            /\ pc[i] = "done" =>
                 /\ exit[i] = "return"
                 /\ DOMAIN result[i] = {"isDocumentTypeMatched", "message"}
                 /\ result[i].isDocumentTypeMatched = FALSE
                 /\ req[i].type \in {"aadhaar", "aadhar"} => result[i].message = "aadhaar not found"
                 /\ req[i].type = "passport" => result[i].message = "passport not found"

\* C7 witness: an 'aadhaar' request rejected by the gate has returned
C7_Witness ==
    \E i \in active :
        /\ GateRejected(i)
        /\ req[i].type = "aadhaar"
        /\ result[i].message = "aadhaar not found"

\* C8: compareFacesWithIdentity examines the candidates in input order and returns the
\* result of the first one that matches; after a match no further call is made.
C8_FirstMatchWins ==
    \A i \in active :
        faceResult[i].isFaceMatched =>
            LET log == faceLog[i]
                n == Len(log)
            IN  /\ pc[i] # "face"
                /\ n > 0
                /\ log[n] = [op |-> "compare", idx |-> faceIdx[i], res |-> "match"]
                /\ \A j \in 1..(n - 1) : log[j].res # "match" /\ log[j].idx <= log[j + 1].idx
                /\ \A c \in 1..faceIdx[i] : \E j \in 1..n : log[j].idx = c /\ log[j].op = "detect"
                /\ \A j \in 1..n : log[j].idx <= faceIdx[i]
                /\ faceResult[i].confidence =
                     Similarity(req[i].photoUrl.doc, CandidateDoc(i, faceIdx[i]))

\* C8 witness: the first of two candidates matched and the run is over; the second was
\* never examined
C8_Witness ==
    \E i \in active :
        /\ pc[i] = "done"
        /\ faceResult[i].isFaceMatched
        /\ faceIdx[i] = 1
        /\ Len(identityFilePaths[i]) = 2
        /\ Len(faceLog[i]) = 2

\* compareFacesWithIdentity has returned
FaceReturned(i) == pc[i] = "aggregate" \/ (pc[i] \in {"finally", "done"} /\ "isFaceMatched" \in DOMAIN result[i])

\* C9: an error on one candidate is not propagated, the scan goes on with the next
\* candidate, and the result is {isFaceMatched: false, confidence: 0} exactly when every
\* candidate was examined and none matched.
C9_ErrorsSkipTheCandidate ==
    \A i \in active :
        LET log == faceLog[i]
            n == Len(log)
        IN  /\ \A j \in 1..n :
                 log[j].res = "error" =>
                    /\ exit[i] # "throw"
                    /\ IF j < n
                       THEN log[j + 1].idx = log[j].idx + 1 /\ log[j + 1].op = "detect"
                       ELSE faceIdx[i] = log[j].idx + 1
            /\ FaceReturned(i) =>
                 /\ faceResult[i] = [isFaceMatched |-> FALSE, confidence |-> 0] <=>
                      /\ \A j \in 1..n : log[j].res # "match"
                      /\ \A c \in 1..Len(identityFilePaths[i]) : \E j \in 1..n : log[j].idx = c
                 /\ ~faceResult[i].isFaceMatched => faceResult[i].confidence = 0

\* C9 witness: the first candidate's detection failed, the second candidate matched
C9_Witness ==
    \E i \in active :
        /\ FaceReturned(i)
        /\ Len(faceLog[i]) = 3
        /\ faceLog[i][1] = [op |-> "detect", idx |-> 1, res |-> "error"]
        /\ faceLog[i][3] = [op |-> "compare", idx |-> 2, res |-> "match"]
        /\ faceResult[i].isFaceMatched

\* the aspects whose flag is false, in the order name, DOB, identity card number, face
FailedAspects(r) ==
    (IF r.isNameMatched = FALSE THEN <<"name">> ELSE <<>>)
    \o (IF r.isDOBMatched = "false" THEN <<"DOB">> ELSE <<>>)
    \o (IF r.isIdentityCardNumberMatched = "false" THEN <<"identity card number">> ELSE <<>>)
    \o (IF r.isFaceMatched = FALSE THEN <<"face">> ELSE <<>>)

\* C10: the message of a full run lists exactly the aspects whose flag is false, and is
\* 'Verification complete' exactly when there is none, for every type, 'aadhaar' included.
C10_MessageListsTheFailedAspects ==
    \A i \in active :
        FullRun(i) =>
            /\ FailedAspects(result[i]) = <<>> <=> result[i].message = "Verification complete"
            /\ FailedAspects(result[i]) # <<>> =>
                 result[i].message =
                    joinIssues(FailedAspects(result[i])) \o " did not match, but verification continued"

\* C11: for a dob given as DD/MM/YYYY, _matchDOB returns true exactly when the corpus
\* holds one of the six representations of that day, month and year.
C11_DobMatchesItsSixRepresentations ==
    (call.fn = "_matchDOB" /\ call.out # "pending") =>
        LET dob == call.args.dob
        IN  call.out = "true" <=>
                \E rep \in DateRepresentations(dob[1], dob[3], dob[5]) :
                    includes(call.args.extractedText, rep)

\* the number of [A-Z0-9] characters of a text, -1 when it holds any other character
RECURSIVE AlnumLength(_)
AlnumLength(s) ==
    IF s = <<>> THEN 0
    ELSE IF AlnumWidth(Head(s)) = 0 \/ AlnumLength(Tail(s)) < 0 THEN -1
    ELSE AlnumWidth(Head(s)) + AlnumLength(Tail(s))

\* the format rule of the type: 12 digits for Aadhaar, 8 or 9 alphanumeric characters
\* for a passport, whitespace apart
WellFormedNumber(number, type) ==
    LET cleaned == stripWhitespace(number)
    IN  IF type \in {"aadhaar", "aadhar"}
        THEN (\A k \in 1..Len(cleaned) : IsDigits(cleaned[k])) /\ AlnumLength(cleaned) = 12
        ELSE AlnumLength(toUpperCase(cleaned)) \in {8, 9}

\* C12: _validateIdentityCardNumberFormat returns valid exactly when, for an Aadhaar
\* request of either spelling, the number without whitespace is 12 digits, and for a
\* passport request, the upper-cased number without whitespace is 8 or 9 alphanumerics.
C12_FormatValidExactlyWhenWellFormed ==
    (/\ call.fn = "_validateIdentityCardNumberFormat"
     /\ call.out # "pending"
     /\ call.args.idType \in {"aadhaar", "aadhar", "passport"}) =>
        (call.out = "true" <=> WellFormedNumber(call.args.identityCardNumber, call.args.idType))

\* C13: a full run of an Aadhaar or passport request whose identityCardNumber is ill-formed
\* returns isIdentityCardNumberFormatValid = false, isIdentityCardNumberMatched = false and
\* isVerification = false; isVerification is true only with a valid format.
C13_IllFormedNumberFailsVerification ==
    \A i \in active :
        (FullRun(i) /\ req[i].type \in {"aadhaar", "aadhar", "passport"}) =>
            /\ (/\ req[i].identityCardNumber # <<>>
                /\ ~WellFormedNumber(req[i].identityCardNumber, req[i].type)) =>
                    /\ result[i].isIdentityCardNumberFormatValid = "false"
                    /\ result[i].isIdentityCardNumberMatched = "false"
                    /\ ~result[i].isVerification
            /\ result[i].isVerification => result[i].isIdentityCardNumberFormatValid = "true"

\* the identity downloads of the invocation that succeeded, in the order of their jobs
RECURSIVE FetchedPaths(_)
FetchedPaths(jobs) ==
    IF jobs = <<>> THEN <<>>
    ELSE (IF Head(jobs).st = "failed" THEN <<>> ELSE <<Head(jobs).path>>)
         \o FetchedPaths(Tail(jobs))

\* C14: a failed identity download is dropped and never makes verifyIdentity throw: once
\* the photo is there the pipeline goes on with the files that were fetched; a failed
\* photo download makes verifyIdentity throw without a result.
C14_IdentityFetchFailuresAreDropped ==
    \A i \in active :
        /\ (pc[i] = "done" /\ photoFetch[i] = "failed") =>
                exit[i] = "throw" /\ result[i] = <<>>
        /\ (exit[i] = "throw" /\ photoFetch[i] # "failed") =>
                isDocumentTypeMatched[i] = "true" /\ _formatDOBThrows(req[i].dob)
        /\ pc[i] \notin {"init", "fetch"} /\ photoFetch[i] = "ok" =>
                /\ identityFilePaths[i] = FetchedPaths(idFetch[i])
                /\ Len(ocr[i]) = Len(identityFilePaths[i])
                /\ \A k \in 1..Len(idFetch[i]) :
                      idFetch[i][k].st = "failed" =>
                          \A j \in 1..Len(identityFilePaths[i]) :
                              identityFilePaths[i][j] # idFetch[i][k].path

\* C14 witness: one of two identity downloads failed and the run returned a full result
C14_Witness ==
    \E i \in active :
        /\ FullRun(i)
        /\ Len(idFetch[i]) = 2
        /\ \E k \in 1..2 : idFetch[i][k].st = "failed"
        /\ Len(identityFilePaths[i]) = 1

\* what the k-th handle contributes to the corpus: '' when its extraction failed
HandleText(i, k) ==
    IF ocr[i][k].st = "failed" THEN <<>> ELSE DocText(CandidateDoc(i, k))

\* the per-handle texts in the order of the handles, with a space between neighbours
SpaceJoined(i) ==
    LET J[k \in 0..Len(identityFilePaths[i])] ==
            IF k = 0 THEN <<>>
            ELSE IF k = 1 THEN HandleText(i, 1)
            ELSE J[k - 1] \o <<SP>> \o HandleText(i, k)
    IN  J[Len(identityFilePaths[i])]

\* C15: a failed extraction never makes extractText fail: its handle contributes '', and
\* the corpus is the lower-cased, space-joined per-handle texts in the order of the handles.
C15_CorpusIsTheJoinedHandleTexts ==
    \A i \in active :
        /\ (pc[i] \notin {"init", "fetch", "extract"} /\ photoFetch[i] = "ok") =>
                extractedText[i] = toLowerCase(SpaceJoined(i))
        /\ (exit[i] = "throw" /\ \E k \in 1..Len(ocr[i]) : ocr[i][k].st = "failed") =>
                isDocumentTypeMatched[i] = "true" /\ _formatDOBThrows(req[i].dob)

\* C15 witness: the first of two extractions failed; the corpus is '' + ' ' + the text of
\* the second handle
C15_Witness ==
    \E i \in active :
        /\ pc[i] = "done"
        /\ Len(ocr[i]) = 2
        /\ ocr[i][1].st = "failed" /\ ocr[i][2].st = "ok"
        /\ Len(extractedText[i]) > 1
        /\ extractedText[i][1] = SP

\* how the try block is left and what is returned, as the phases before cleanup decide it
OutcomeBeforeCleanup(i) ==
    IF photoFetch[i] = "failed" THEN [exit |-> "throw", result |-> <<>>]
    ELSE IF isDocumentTypeMatched[i] = "false"
    THEN [exit |-> "return", result |-> GateFailureResult(req[i].type)]
    ELSE IF NeedsDobAndId(req[i].type) /\ ~DobMissing(req[i].dob) /\ _formatDOBThrows(req[i].dob)
    THEN [exit |-> "throw", result |-> <<>>]
    ELSE [exit |-> "return", result |-> FullResult(match[i], faceResult[i], req[i].type)]

\* C16: a failed deletion is never thrown and never changes the outcome: during and after
\* the final cleanup verifyIdentity returns the result, or throws the error, that the
\* phases before cleanup produced, whatever became of each deletion.
C16_DeletionFailuresLeaveTheOutcome ==
    \A i \in active :
        pc[i] \in {"finally", "done"} =>
            [exit |-> exit[i], result |-> result[i]] = OutcomeBeforeCleanup(i)

\* C16 witness: a full run has returned its result although an unlink failed
C16_Witness ==
    \E i \in active :
        /\ FullRun(i)
        /\ unlinkFailed[i] # {}
        /\ \E k \in 1..Len(del[i]) : del[i][k].st = "failed"
        /\ result[i].isFaceMatched

\* the fields of the HTTP body of a full run
WireFields ==
    {"isDocumentTypeMatched", "isNameMatched", "isDOBMatched", "isIdentityCardNumberMatched",
     "isFaceMatched", "confidence", "isVerification", "message"}

SatisfiesContract(body) ==
    /\ ~Blank(body.name)
    /\ body.photoUrl # EmptyUrl
    /\ body.identityUrls # <<>>
    /\ \A k \in 1..Len(body.identityUrls) : body.identityUrls[k] # EmptyUrl
    /\ body.type \in {"aadhaar", "aadhar", "passport", "other"}
    /\ body.type \in {"aadhaar", "aadhar", "passport"} =>
          /\ ~DobMissing(body.dob)
          /\ dobRegex(body.dob)
          /\ ~Blank(body.identityCardNumber)

\* C18: the controller calls the pipeline exactly for the bodies that satisfy the
\* validation contract, and answers every other body with 400 without calling it.
C18_PipelineRunsExactlyForValidBodies ==
    \A i \in active :
        pc[i] # "init" =>
            /\ pc[i] # "rejected" <=> SatisfiesContract(req[i])
            /\ pc[i] = "rejected" =>
                 /\ response[i].status = 400
                 /\ photoFetch[i] = "idle" /\ idFetch[i] = <<>> /\ written[i] = {}

\* the place of a phase in the order fetch, extract and gate, (release after a failed
\* gate,) field matching and face verification, aggregation, cleanup
PhaseRank(p) ==
    CASE p = "init" -> 0
      [] p = "fetch" -> 1
      [] p = "extract" -> 2
      [] p = "gateCleanup" -> 3
      [] p = "face" -> 4
      [] p = "aggregate" -> 5
      [] p = "finally" -> 6
      [] OTHER -> 7

\* C19: the phases of an invocation occur in the order fetch, extract, document-type
\* gate, field matching, face verification, aggregation, cleanup, none of them twice; no
\* OCR call starts before every fetch has settled, and no face call starts before the
\* gate has passed.
C19_PhasesInOrder ==
    /\ [](\A i \in active :
            /\ ocr[i] # <<>> => photoFetch[i] = "ok" /\ AllSettled(idFetch[i])
            /\ (faceLog[i] # <<>> \/ faceIdx[i] > 0) =>
                  /\ isDocumentTypeMatched[i] = "true"
                  /\ AllSettled(ocr[i])
            /\ isDocumentTypeMatched[i] # "undefined" => AllSettled(ocr[i])
            /\ result[i] # <<>> => pc[i] \in {"finally", "done"}
            /\ pc[i] = "face" => del[i] = <<>>)
    /\ [][\A i \in active :
            /\ PhaseRank(pc'[i]) >= PhaseRank(pc[i])
            /\ pc[i] = "gateCleanup" => pc'[i] \in {"gateCleanup", "finally"}]_vars

\* C19 witness: a full run over two identity files is over, with OCR and face calls made
C19_Witness ==
    \E i \in active :
        /\ FullRun(i)
        /\ Len(ocr[i]) = 2
        /\ faceLog[i] # <<>>
        /\ \A k \in 1..Len(del[i]) : del[i][k].st = "deleted"

\* the URL a staged identity file was fetched from
UrlOfHandle(i, path) ==
    idFetch[i][CHOOSE k \in 1..Len(idFetch[i]) : idFetch[i][k].path = path].url

\* the place of a URL in the request's identityUrls
PlaceInRequest(i, url) == CHOOSE k \in 1..Len(req[i].identityUrls) : req[i].identityUrls[k] = url

\* C20: the identity handles given to text extraction and to the face comparator are in
\* the relative order of their URLs in the request's identityUrls, failed fetches
\* removed, for every mix of object-storage and plain HTTP URLs.
C20_HandlesKeepRequestOrder ==
    \A i \in active :
        \A a, b \in 1..Len(identityFilePaths[i]) :
            a < b => PlaceInRequest(i, UrlOfHandle(i, identityFilePaths[i][a]))
                       < PlaceInRequest(i, UrlOfHandle(i, identityFilePaths[i][b]))

\* the OCR calls of an invocation that have started and not settled
OcrInFlight(i) == {k \in 1..Len(ocr[i]) : ocr[i][k].st = "pending"}

\* the fetches of an invocation that have started and not settled
FetchesInFlight(i) ==
    (IF photoFetch[i] = "pending" THEN {0} ELSE {})
        \cup {k \in 1..Len(idFetch[i]) : idFetch[i][k].st = "pending"}

\* C21: within one request at most one OCR call is in flight at any time (the fetches
\* may overlap, the extractions and the face calls may not).
C21_OneOcrCallAtATime ==
    \A i \in active : Cardinality(OcrInFlight(i)) <= 1

\* C22: _parseS3Url returns the bucket and the key of every virtual-hosted-style URL
\* (bucket the first host label, key the path, with or without a region) and of every
\* path-style URL (bucket the first path segment, key the rest), and throws for every
\* URL of neither layout.
C22_ParsesBothLayouts ==
    (call.fn = "_parseS3Url" /\ call.out # "pending") =>
        IF call.args.layout = "neither"
        THEN call.out = "thrown"
        ELSE /\ call.out = "returned"
             /\ call.bucket = call.args.bucket
             /\ call.key = call.args.key

\* C23: when the document-type gate fails, the body of the 400 response is the object
\* verifyIdentity returned, unchanged: the same isDocumentTypeMatched and the same
\* message, for every type.
C23_GateFailureBodyIsTheResult ==
    \A i \in active :
        (/\ response[i] # NoResponse
         /\ exit[i] = "return"
         /\ isDocumentTypeMatched[i] = "false") =>
            /\ response[i].status = 400
            /\ response[i].body = result[i]

\* C24: if every external call eventually returns or fails, an invocation of
\* verifyIdentity that has started eventually returns a result or throws; no call is
\* made twice for the same file, and there are at most as many downloads, extractions
\* and face candidates as identity URLs.
C24_EveryInvocationEnds ==
    /\ (pc[1] = "fetch") ~> (pc[1] = "done" /\ exit[1] \in {"return", "throw"})
    /\ [](/\ Len(idFetch[1]) = Len(req[1].identityUrls)
          /\ Len(ocr[1]) <= Len(req[1].identityUrls)
          /\ \A a, b \in 1..Len(faceLog[1]) :
                (faceLog[1][a].op = faceLog[1][b].op /\ faceLog[1][a].idx = faceLog[1][b].idx)
                    => a = b
          /\ \A a \in 1..Len(faceLog[1]) : faceLog[1][a].idx \in 1..Len(req[1].identityUrls))

\* C24 witness: an invocation has ended after external calls of every kind failed or
\* returned: a download and an extraction failed, a face call and a deletion were made
C24_Witness ==
    /\ pc[1] = "done"
    /\ exit[1] = "return"
    /\ \E k \in 1..Len(idFetch[1]) : idFetch[1][k].st = "failed"
    /\ faceLog[1] # <<>>
    /\ del[1] # <<>>

\* C25: for every full run of verifyIdentity, of any type, isVerification is true
\* exactly when the message is 'Verification complete'.
C25_VerifiedExactlyWhenComplete ==
    \A i \in active :
        FullRun(i) => (result[i].isVerification <=> result[i].message = "Verification complete")

\* C25 witness: a full run of an Aadhaar request failed on the DOB alone and says so
C25_Witness ==
    \E i \in active :
        /\ FullRun(i)
        /\ req[i].type = "aadhar"
        /\ result[i].isNameMatched /\ result[i].isFaceMatched
        /\ result[i].isDOBMatched = "false"
        /\ result[i].isIdentityCardNumberMatched = "true"
        /\ ~result[i].isVerification
        /\ result[i].message # "Verification complete"

\* C26: if no identity URL of a request is fetched successfully, verifyIdentity never
\* returns isVerification = true, whatever the type, name, dob and identityCardNumber:
\* the corpus is empty and the face comparator has no candidate.
C26_NoDocumentNoVerification ==
    \A i \in active :
        (/\ pc[i] \notin {"init", "fetch"}
         /\ \A k \in 1..Len(idFetch[i]) : idFetch[i][k].st = "failed") =>
            /\ identityFilePaths[i] = <<>>
            /\ isDocumentTypeMatched[i] # "undefined" => extractedText[i] = <<>>
            /\ faceLog[i] = <<>>
            /\ result[i] # <<>> =>
                 (Has(result[i], "isVerification") => ~result[i].isVerification)

\* C26 witness: a request of type other went through a full run with no identity file
C26_Witness ==
    \E i \in active :
        /\ FullRun(i)
        /\ req[i].identityUrls # <<>>
        /\ \A k \in 1..Len(idFetch[i]) : idFetch[i][k].st = "failed"
        /\ ~result[i].isVerification

\* C27: when verifyIdentity has returned or thrown, none of the fetches it started is
\* still in flight, so no local file of the invocation is written after it has finished.
C27_NoFetchOutlivesTheInvocation ==
    \A i \in active : pc[i] = "done" => FetchesInFlight(i) = {}

\* C28: within one invocation no downloaded file is deleted while an OCR or face call of
\* that invocation has still to read it: deleteFile is first called only after every
\* extraction has settled and the candidate loop is over.
C28_DeletionsFollowTheReaders ==
    \A i \in active :
        releaseLog[i] # <<>> =>
            /\ AllSettled(ocr[i])
            /\ pc[i] \in {"gateCleanup", "finally", "done"}

\* C28 witness: the files of a full run over two documents are being deleted after both
\* extractions and the face calls have settled
C28_Witness ==
    \E i \in active :
        /\ pc[i] = "finally"
        /\ exit[i] = "return"
        /\ Len(ocr[i]) = 2
        /\ faceLog[i] # <<>>
        /\ \E k \in 1..Len(del[i]) : del[i][k].st = "deleted"

\* C29: for every bucket, key and configured region (us-east-1 among them), the URL
\* uploadToS3 returns is parsed by _parseS3Url back to the bucket and the key that
\* uploadToS3 reported.
C29_UploadedUrlParsesBack ==
    (call.fn = "uploadToS3" /\ call.out \in {"returned", "thrown"}) =>
        /\ call.out = "returned"
        /\ call.parsed.bucket = call.bucket
        /\ call.parsed.key = call.key

\* how many times deleteFile was called with the path
Releases(i, path) == Cardinality({k \in 1..Len(releaseLog[i]) : releaseLog[i][k] = path})

\* the local files the downloads of the invocation fetched
FetchedHandles(i) ==
    (IF photoFetch[i] = "ok" THEN {PhotoPath(req[i].photoUrl)} ELSE {})
        \cup {idFetch[i][k].path : k \in {k \in 1..Len(idFetch[i]) : idFetch[i][k].st = "ok"}}

\* C30: within one invocation, release is requested exactly once for each successfully
\* fetched handle on every exit path, the early return of the document-type gate included.
C30_EachHandleReleasedOnce ==
    \A i \in active :
        pc[i] = "done" => \A path \in FetchedHandles(i) : Releases(i, path) = 1

====
